---- MODULE Spec2Model ----
(***************************************************************************)
(* etf-dashboard: the decision pipeline of build_report (cli.py), the      *)
(* explainable win-rate engine (rules.py) and the stop / target / Kelly    *)
(* arithmetic.                                                             *)
(*                                                                         *)
(* Representation.                                                         *)
(*  - Python's Optional[T] is a sequence: None is << >>, a value v is      *)
(*    << v >>.                                                             *)
(*  - Prices, volumes and RSI readings are integers.  Every quantity the   *)
(*    code obtains by a division or a multiplication by a percentage       *)
(*    (ratios, stop, target, R, Kelly fractions, trailing stop) is an      *)
(*    exact rational [num, den] with den > 0, compared by cross            *)
(*    multiplication.                                                      *)
(*  - The win rate W is an integer number of 1/10000 (the resolution of    *)
(*    round(x, 4) in rules.py): 0.60 is 6000, 0.15 is 1500.                *)
(*  - A price history is summarised by the facts the pipeline reads from   *)
(*    it: its row count n, its last bar, the latest rolling means, and     *)
(*    the outcome of each pattern detector.  A rolling statistic over a    *)
(*    window of k rows is defined iff n >= k (min_periods = window).       *)
(***************************************************************************)
EXTENDS Integers, Sequences, FiniteSets, TLC

VARIABLES
    world,      \* build_report: the call's arguments and what Yahoo would return
    pc,         \* control location of the running operation
    snap,       \* build_report: fetched snapshot of the subject ticker
    bench,      \* build_report: fetched snapshot of the benchmark
    fetched,    \* build_report: tickers for which fetch_snapshot was called, in order
    report,     \* build_report: the ReportInputs record handed to the formatter
    bd,         \* build_report: the WinRateBreakdown computed inside choose_win_rate
    written,    \* build_report: whether the report file has been written
    args,       \* pure operations: the arguments of the call
    ret         \* pure operations: the value returned

vars == <<world, pc, snap, bench, fetched, report, bd, written, args, ret>>

---------------------------------------------------------------------------
(* Optional values and exact rationals                                     *)

None == << >>

Some(v) == << v >>

Val(o) == o[1]

Rat(n, d) == [num |-> n, den |-> d]

RLT(a, b) == a.num * b.den < b.num * a.den

RLE(a, b) == a.num * b.den <= b.num * a.den

REQ(a, b) == a.num * b.den = b.num * a.den

RECURSIVE GCD(_, _)
GCD(a, b) == IF b = 0 THEN a ELSE GCD(b, a % b)

\* n / d in lowest terms, for d > 0
RNorm(n, d) ==
    LET g == GCD(IF n < 0 THEN -n ELSE n, d)
    IN Rat(n \div g, d \div g)

RAdd(a, b) == RNorm(a.num * b.den + b.num * a.den, a.den * b.den)

RSub(a, b) == RNorm(a.num * b.den - b.num * a.den, a.den * b.den)

RMul(a, b) == RNorm(a.num * b.num, a.den * b.den)

\* a / b for b > 0
RDiv(a, b) == RNorm(a.num * b.den, a.den * b.num)

RMax(a, b) == IF RLT(a, b) THEN b ELSE a

RMin(a, b) == IF RLT(b, a) THEN b ELSE a

\* Bounded input families: every record obtained from a record of S by
\* replacing the value of at most k fields by another value of its domain.
Overrides(dom) == UNION { { <<f, v>> : v \in dom[f] } : f \in DOMAIN dom }

RECURSIVE ApplyOverrides(_, _, _)
ApplyOverrides(r, ov, k) ==
    IF k = 0 THEN r
    ELSE ApplyOverrides([r EXCEPT ![ov[k][1]] = ov[k][2]], ov, k - 1)

Vary(S, dom, k) ==
    { ApplyOverrides(b, ov, k) : b \in S, ov \in [1..k -> Overrides(dom)] }

---------------------------------------------------------------------------
(* rules.py                                                                *)

volume_signal(vol_today, vol_avg, open_, close) ==
    IF vol_today = None \/ vol_avg = None \/ vol_avg = Some(0)
    THEN [vol_ratio |-> None, is_attack |-> FALSE, is_distribution |-> FALSE,
          label |-> "MISSING"]
    ELSE LET ratio == Rat(Val(vol_today), Val(vol_avg))
             is_red == open_ # None /\ close # None /\ Val(close) > Val(open_)
             is_black == open_ # None /\ close # None /\ Val(close) < Val(open_)
             attack == RLT(Rat(15, 10), ratio) /\ is_red
             distribution == RLT(Rat(25, 10), ratio) /\ is_black
         IN [vol_ratio |-> Some(ratio),
             is_attack |-> attack,
             is_distribution |-> distribution,
             label |-> IF attack THEN "ATTACK"
                       ELSE IF distribution THEN "DISTRIBUTION"
                       ELSE IF RLE(Rat(1, 1), ratio) THEN "EXPANSION"
                       ELSE "CONTRACTION"]

san_yang_kai_tai(ma5, ma10, ma20, ma20_slope) ==
    IF ma5 = None \/ ma10 = None \/ ma20 = None \/ ma20_slope = None
    THEN None
    ELSE Some(Val(ma5) > Val(ma10) /\ Val(ma10) > Val(ma20) /\ Val(ma20_slope) > 0)

trend_regime(p_now, ma150) ==
    IF p_now = None \/ ma150 = None THEN "MISSING"
    ELSE IF Val(p_now) > Val(ma150) THEN "BULL" ELSE "BEAR"

\* Mutant of _missing: names every input of the rule as soon as one is None.
_missing_names_all(pairs) ==
    IF \E i \in 1..Len(pairs) : pairs[i][2] = None
    THEN [i \in 1..Len(pairs) |-> pairs[i][1]]
    ELSE << >>

\* pairs: a sequence of <<name, optional value>>
_missing(pairs) ==
    LET absent == SelectSeq(pairs, LAMBDA p : p[2] = None)
    IN [i \in 1..Len(absent) |-> absent[i][1]]

WinRateComponent(kind, name, delta, status, missing_fields) ==
    [kind |-> kind, name |-> name, delta |-> delta, status |-> status,
     missing_fields |-> missing_fields]

\* Mutant of add_rule: an applied rule moves the totals but is listed with delta 0.
add_rule_folded(acc, kind, name, delta_if_true, cond, missing_fields) ==
    IF missing_fields # << >>
    THEN [acc EXCEPT !.components =
              Append(@, WinRateComponent(kind, name, 0, "SKIPPED_MISSING", missing_fields))]
    ELSE IF cond
    THEN [components |-> Append(acc.components,
                                WinRateComponent(kind, name, 0, "APPLIED", << >>)),
          bonus_total |-> IF kind = "BONUS" THEN acc.bonus_total + delta_if_true
                          ELSE acc.bonus_total,
          penalty_total |-> IF kind = "PENALTY" THEN acc.penalty_total + delta_if_true
                            ELSE acc.penalty_total]
    ELSE [acc EXCEPT !.components =
              Append(@, WinRateComponent(kind, name, 0, "NOT_APPLIED", << >>))]

\* acc: [components, bonus_total, penalty_total], the three locals add_rule updates
add_rule(acc, kind, name, delta_if_true, cond, missing_fields) ==
    IF missing_fields # << >>
    THEN [acc EXCEPT !.components =
              Append(@, WinRateComponent(kind, name, 0, "SKIPPED_MISSING", missing_fields))]
    ELSE IF cond
    THEN [components |-> Append(acc.components,
                                WinRateComponent(kind, name, delta_if_true, "APPLIED", << >>)),
          bonus_total |-> IF kind = "BONUS" THEN acc.bonus_total + delta_if_true
                          ELSE acc.bonus_total,
          penalty_total |-> IF kind = "PENALTY" THEN acc.penalty_total + delta_if_true
                            ELSE acc.penalty_total]
    ELSE [acc EXCEPT !.components =
              Append(@, WinRateComponent(kind, name, 0, "NOT_APPLIED", << >>))]

clamp_min == 1500

clamp_max == 8500

\* Mutant of clamp: the upper bound is not enforced.
clamp_lower_only(w_raw) == IF w_raw < clamp_min THEN clamp_min ELSE w_raw

clamp(w_raw) ==
    LET lo == IF w_raw < clamp_min THEN clamp_min ELSE w_raw
    IN IF lo > clamp_max THEN clamp_max ELSE lo

base_w(bull) == IF bull THEN 6000 ELSE 3000

choose_win_rate_breakdown(a) ==
    LET base_missing == _missing(<< <<"p_now", a.p_now>>, <<"ma150", a.ma150>>,
                                    <<"ma50", a.ma50>>, <<"ma200", a.ma200>> >>)
    IN
    IF base_missing # << >>
    THEN [base |-> None, bonus_total |-> 0, penalty_total |-> 0,
          w_raw |-> None, w_clamped |-> None,
          components |-> << WinRateComponent("BASE", "Base", 0, "SKIPPED_MISSING",
                                             base_missing) >>]
    ELSE
    LET bull == Val(a.p_now) > Val(a.ma150) /\ Val(a.ma50) > Val(a.ma200)
        gap_missing == _missing(<< <<"gap_filled_by_close", a.gap_filled_by_close>>,
                                   <<"gap_direction_by_close", a.gap_direction_by_close>> >>)
        r0 == [components |-> << WinRateComponent("BASE", "Base", base_w(bull),
                                                  "APPLIED", << >>) >>,
               bonus_total |-> 0, penalty_total |-> 0]
        r1 == add_rule(r0, "BONUS", "SanYang", 1000,
                       a.san_yang = Some(TRUE),
                       _missing(<< <<"san_yang", a.san_yang>> >>))
        r2 == add_rule(r1, "BONUS", "ValueReversion", 2000,
                       a.rule_35_zone = Some("GOLD") /\ a.rsi14 # None /\ Val(a.rsi14) < 30,
                       _missing(<< <<"rule_35_zone", a.rule_35_zone>>,
                                   <<"rsi14", a.rsi14>> >>))
        r3 == add_rule(r2, "BONUS", "BullMomentum", 1000,
                       bull /\ a.vol_ratio # None /\ RLT(Rat(1, 1), Val(a.vol_ratio))
                            /\ a.bias60 # None /\ RLT(Val(a.bias60), Rat(10, 1)),
                       _missing(<< <<"vol_ratio", a.vol_ratio>>, <<"bias60", a.bias60>> >>))
        r4 == add_rule(r3, "BONUS", "GapCloseDown", 1000,
                       a.gap_filled_by_close = Some(TRUE)
                            /\ a.gap_direction_by_close = Some("DOWN"),
                       gap_missing)
        r5 == add_rule(r4, "PENALTY", "GapCloseUp", -1000,
                       a.gap_filled_by_close = Some(TRUE)
                            /\ a.gap_direction_by_close = Some("UP"),
                       gap_missing)
        r6 == add_rule(r5, "PENALTY", "TopIsland", -1000,
                       a.island_reversal_bearish = Some(TRUE),
                       _missing(<< <<"island_reversal_bearish", a.island_reversal_bearish>> >>))
        r7 == add_rule(r6, "BONUS", "BottomIsland", 1000,
                       a.island_reversal_bullish = Some(TRUE),
                       _missing(<< <<"island_reversal_bullish", a.island_reversal_bullish>> >>))
        r8 == add_rule(r7, "PENALTY", "DefenseBroken", -1000,
                       a.vol_spike_defense_broken = Some(TRUE),
                       _missing(<< <<"vol_spike_defense_broken", a.vol_spike_defense_broken>> >>))
        r9 == add_rule(r8, "PENALTY", "LongBlackEngulf", -1000,
                       a.bearish_long_black_engulf = Some(TRUE),
                       _missing(<< <<"bearish_long_black_engulf", a.bearish_long_black_engulf>> >>))
        r10 == add_rule(r9, "PENALTY", "SanShengWuNai", -1000,
                        a.san_sheng_wu_nai = Some(TRUE),
                        _missing(<< <<"san_sheng_wu_nai", a.san_sheng_wu_nai>> >>))
        r11 == add_rule(r10, "PENALTY", "OpenGap", -1000,
                        a.gap_open = Some(TRUE) /\ a.gap_filled = Some(FALSE),
                        _missing(<< <<"gap_open", a.gap_open>>, <<"gap_filled", a.gap_filled>> >>))
        w_raw == base_w(bull) + r11.bonus_total + r11.penalty_total
    IN [base |-> Some(base_w(bull)),
        bonus_total |-> r11.bonus_total,
        penalty_total |-> r11.penalty_total,
        w_raw |-> Some(w_raw),
        w_clamped |-> Some(clamp(w_raw)),
        components |-> r11.components]

\* The legacy signature: one island flag, treated as the bearish one.
choose_win_rate_args(a) ==
    [p_now |-> a.p_now, ma150 |-> a.ma150, ma50 |-> a.ma50, ma200 |-> a.ma200,
     vol_ratio |-> a.vol_ratio, ma20_slope |-> a.ma20_slope, san_yang |-> a.san_yang,
     rsi14 |-> a.rsi14, rule_35_zone |-> a.rule_35_zone, bias60 |-> a.bias60,
     gap_open |-> a.gap_open, gap_filled |-> a.gap_filled,
     gap_filled_by_close |-> a.gap_filled_by_close,
     gap_direction_by_close |-> a.gap_direction_by_close,
     island_reversal_bearish |-> a.island_reversal,
     island_reversal_bullish |-> None,
     vol_spike_defense_broken |-> a.vol_spike_defense_broken,
     bearish_long_black_engulf |-> a.bearish_long_black_engulf,
     bearish_distribution_day |-> a.bearish_distribution_day,
     bearish_price_up_vol_down |-> a.bearish_price_up_vol_down,
     san_sheng_wu_nai |-> None]

choose_win_rate(a) == choose_win_rate_breakdown(choose_win_rate_args(a)).w_clamped

---------------------------------------------------------------------------
(* cli.py: stop, target, reward/risk and Kelly sizing                      *)

StopTargetResult(stop, target, r, target_mode, stop_from_pct, raises) ==
    [stop |-> stop, target |-> target, r |-> r, target_mode |-> target_mode,
     stop_from_pct |-> stop_from_pct, raises |-> raises]

\* Mutant of ma20_stop: MA20 is used even when it is at or above entry.
ma20_stop_always_max(entry, ma20, stop_from_pct) ==
    RMax(Rat(Val(ma20), 1), stop_from_pct)

\* stop when MA20 is given: the tighter of MA20 and the percentage stop,
\* unless MA20 >= entry
ma20_stop(entry, ma20, stop_from_pct) ==
    IF Val(ma20) >= Val(entry) THEN stop_from_pct
    ELSE RMax(Rat(Val(ma20), 1), stop_from_pct)

\* Mutant of min_rr_target: the target is overridden but R is left as computed.
min_rr_target_keeps_r(e, stop, target, denom, r_val, min_rr, stop_from_pct) ==
    IF RLT(r_val, min_rr)
    THEN StopTargetResult(Some(stop), Some(RAdd(e, RMul(min_rr, denom))), Some(r_val),
                          "MIN_RR", Some(stop_from_pct), FALSE)
    ELSE StopTargetResult(Some(stop), Some(target), Some(r_val),
                          "P_HIGH", Some(stop_from_pct), FALSE)

\* target and R once R = (P_high - entry) / (entry - stop) is known to be > 0
min_rr_target(e, stop, target, denom, r_val, min_rr, stop_from_pct) ==
    IF RLT(r_val, min_rr)
    THEN StopTargetResult(Some(stop), Some(RAdd(e, RMul(min_rr, denom))), Some(min_rr),
                          "MIN_RR", Some(stop_from_pct), FALSE)
    ELSE StopTargetResult(Some(stop), Some(target), Some(r_val),
                          "P_HIGH", Some(stop_from_pct), FALSE)

\* Mutant of target_le_entry: the MA20-tightened stop is kept.
target_le_entry_keeps_stop(stop, target, stop_from_pct) ==
    StopTargetResult(Some(stop), Some(target), None,
                     "INVALID_TARGET_LE_ENTRY_USE_PCT_STOP", Some(stop_from_pct), FALSE)

\* R <= 0: the stop falls back to the percentage stop and R is withheld
target_le_entry(stop, target, stop_from_pct) ==
    StopTargetResult(Some(stop_from_pct), Some(target), None,
                     "INVALID_TARGET_LE_ENTRY_USE_PCT_STOP", Some(stop_from_pct), FALSE)

\* Half the spacing of the floating-point numbers just below 1.0.  For the doubles
\* of the source it is 2^-54; the model scales it to 2^-12, numbers that small being
\* beyond the model's integers, and scales the smallest stop_loss_pct with it.
half_spacing_below_one == Rat(1, 4096)

\* 1.0 - float(stop_loss_pct): a subtrahend of at most half the spacing below 1.0 is
\* absorbed (round to nearest, ties to even).  No other rounding is modelled.
one_minus(stop_loss_pct) ==
    IF RLE(stop_loss_pct, half_spacing_below_one) THEN Rat(1, 1)
    ELSE RSub(Rat(1, 1), stop_loss_pct)

_stop_target(entry, ma20, p_high, stop_loss_pct, min_rr) ==
    IF entry = None
    THEN StopTargetResult(None, None, None, "MISSING", None, FALSE)
    ELSE IF RLT(min_rr, Rat(0, 1))
    THEN StopTargetResult(None, None, None, "ValueError", None, TRUE)
    ELSE
    LET e == Rat(Val(entry), 1)
        stop_from_pct == RMul(e, one_minus(stop_loss_pct))
        stop == IF ma20 = None THEN stop_from_pct
                ELSE ma20_stop(entry, ma20, stop_from_pct)
    IN
    IF p_high = None
    THEN StopTargetResult(Some(stop), None, None, "MISSING_P_HIGH", Some(stop_from_pct), FALSE)
    ELSE
    LET target == Rat(Val(p_high), 1)
        denom == RSub(e, stop)
    IN
    IF RLE(denom, Rat(0, 1))
    THEN StopTargetResult(Some(stop), Some(target), None, "INVALID_STOP_GE_ENTRY",
                          Some(stop_from_pct), FALSE)
    ELSE
    LET r_val == RDiv(RSub(target, e), denom)
    IN
    IF RLE(r_val, Rat(0, 1))
    THEN target_le_entry(stop, target, stop_from_pct)
    ELSE min_rr_target(e, stop, target, denom, r_val, min_rr, stop_from_pct)

\* f = (w * (r + 1) - 1) / r, for r > 0; w in 1/10000
kelly_f(w, r_val) ==
    RDiv(RSub(RMul(Rat(w, 10000), RAdd(r_val, Rat(1, 1))), Rat(1, 1)), r_val)

\* Mutant of kelly_cap: the floor at 0 is missing.
kelly_cap_no_floor(f, cap) == RMin(cap, f)

\* max(0, min(cap, f))
kelly_cap(f, cap) == RMax(Rat(0, 1), RMin(cap, f))

\* rules.kelly: the stand-alone Kelly plan
kelly(entry, stop, target, w, cap) ==
    IF entry <= stop \/ target <= entry
    THEN [raises |-> TRUE, r |-> None, f_raw |-> None, f_capped |-> None]
    ELSE LET r == RDiv(Rat(target - entry, 1), Rat(entry - stop, 1))
             f == kelly_f(w, r)
         IN [raises |-> FALSE, r |-> Some(r), f_raw |-> Some(f),
             f_capped |-> Some(kelly_cap(f, cap))]

\* The notes build_report appends about the stop / target derivation.
risk_notes(p_now, ma20, r_val, target_mode, min_rr) ==
    (IF p_now # None /\ ma20 # None /\ Val(ma20) >= Val(p_now)
        THEN {"MA20_GE_ENTRY_IGNORED"} ELSE {})
    \cup (IF ~(r_val # None /\ RLE(min_rr, Val(r_val))) THEN {"RR_BELOW_MIN_RR"} ELSE {})
    \cup (IF target_mode = "INVALID_TARGET_LE_ENTRY_USE_PCT_STOP"
        THEN {"TARGET_LE_ENTRY_PCT_STOP_FORCED"} ELSE {})
    \cup (IF target_mode = "MIN_RR" THEN {"TARGET_FROM_MIN_RR"} ELSE {})

\* build_report, lines 414-444 and 476-482: the stop / target / R / Kelly stage.
\* w is the win rate returned by choose_win_rate.
risk_stage(p_now, ma20, p_high, w, stop_loss_pct, min_rr, max_position_pct) ==
    LET st == _stop_target(p_now, ma20, p_high, stop_loss_pct, min_rr)
        rr_ok == st.r # None /\ RLE(min_rr, Val(st.r))
        sized == w # None /\ p_now # None /\ st.stop # None /\ st.target # None
                    /\ st.r # None
    IN [stop |-> st.stop, target |-> st.target, r_val |-> st.r,
        target_mode |-> st.target_mode, stop_from_pct |-> st.stop_from_pct,
        rr_ok |-> rr_ok,
        notes |-> risk_notes(p_now, ma20, st.r, st.target_mode, min_rr),
        kelly_f_raw |-> IF sized THEN Some(kelly_f(Val(w), Val(st.r))) ELSE None,
        kelly_f_capped |-> IF sized
                           THEN Some(kelly_cap(kelly_f(Val(w), Val(st.r)), max_position_pct))
                           ELSE None]

---------------------------------------------------------------------------
(* laowang.py and indicators.py, as seen through the summary of a history  *)

\* a rolling statistic with min_periods = window
rolling(h, window, value) == IF h.n >= window THEN Some(value) ELSE None

\* Mutant of detect_last_gap: an expired gap is still reported, with its fill status.
detect_last_gap_keeps_expired(h) ==
    IF h.n < 2 \/ h.gap = "NONE"
    THEN [kind |-> None, is_expired |-> None, is_filled_by_close |-> None]
    ELSE [kind |-> Some(IF h.gap \in {"EXPIRED", "UP_OPEN", "UP_FILLED"} THEN "GAP_UP"
                        ELSE "GAP_DOWN"),
          is_expired |-> Some(h.gap = "EXPIRED"),
          is_filled_by_close |-> Some(h.gap \in {"UP_FILLED", "DOWN_FILLED"})]

\* detect_last_gap: the latest strict gap of the scanned rows and its fill status
detect_last_gap(h) ==
    IF h.n < 2 \/ h.gap = "NONE"
    THEN [kind |-> None, is_expired |-> None, is_filled_by_close |-> None]
    ELSE IF h.gap = "EXPIRED"
    THEN [kind |-> None, is_expired |-> Some(TRUE), is_filled_by_close |-> None]
    ELSE [kind |-> Some(IF h.gap \in {"UP_OPEN", "UP_FILLED"} THEN "GAP_UP" ELSE "GAP_DOWN"),
          is_expired |-> Some(FALSE),
          is_filled_by_close |-> Some(h.gap \in {"UP_FILLED", "DOWN_FILLED"})]

\* detect_island_reversal: the latest GAP_UP .. GAP_DOWN pair, or None
detect_island_reversal(h) ==
    IF h.n < 3 THEN None
    ELSE IF h.island THEN Some("GAP_UP_THEN_GAP_DOWN") ELSE None

massive_volume_levels(h, lookback_days) ==
    IF h.n < lookback_days
    THEN [is_massive |-> None, low_broken |-> None]
    ELSE IF h.mv = "NO_HIT"
    THEN [is_massive |-> Some(FALSE), low_broken |-> Some(FALSE)]
    ELSE [is_massive |-> Some(TRUE), low_broken |-> Some(h.mv = "BROKEN")]

bearish_omens(h, vol_avg_window) ==
    IF h.n < 2
    THEN [long_black_engulf |-> None, price_up_vol_down |-> None, distribution_day |-> None]
    ELSE [long_black_engulf |-> Some(h.engulf),
          price_up_vol_down |-> Some(h.price_up_vol_down),
          distribution_day |-> Some(h.n >= vol_avg_window + 1 /\ h.distribution_day)]

---------------------------------------------------------------------------
(* cli.py: build_report                                                    *)

\* Mutant of back_compat_flags: the flags describe the gap on the day it opened.
back_compat_flags_stale(is_filled_by_close) == [gap_open |-> TRUE, gap_filled |-> FALSE]

\* gap_open = not bool(gap.is_filled_by_close); gap_filled = bool(gap.is_filled_by_close)
back_compat_flags(is_filled_by_close) == [gap_open |-> ~is_filled_by_close, gap_filled |-> is_filled_by_close]

_compute_from_history(h, volume_avg_window, trailing_stop_pct, vol_spike_window) ==
    LET gap == detect_last_gap(h)
        has_fill == gap.kind # None /\ gap.is_filled_by_close # None
        trailing_stop == RMul(Rat(h.high252, 1), RSub(Rat(1, 1), trailing_stop_pct))
        mv == massive_volume_levels(h, vol_spike_window)
        omen == bearish_omens(h, vol_spike_window)
    IN [p_now |-> Some(h.close),
        open_ |-> Some(h.open),
        close |-> Some(h.close),
        ma5 |-> rolling(h, 5, h.ma5),
        ma10 |-> rolling(h, 10, h.ma10),
        ma20 |-> rolling(h, 20, h.ma20),
        ma50 |-> rolling(h, 50, h.ma50),
        ma60 |-> rolling(h, 60, h.ma60),
        ma150 |-> rolling(h, 150, h.ma150),
        ma200 |-> rolling(h, 200, h.ma200),
        bias60 |-> rolling(h, 60, RNorm(100 * (h.close - h.ma60), h.ma60)),
        ma20_slope |-> rolling(h, 25, h.ma20 - h.ma20_lag),
        v_today |-> Some(h.volume),
        v_avg |-> rolling(h, volume_avg_window, h.v_avg),
        rsi14 |-> IF h.n >= 15 THEN h.rsi ELSE None,
        macd |-> rolling(h, 26, h.macd),
        trailing_stop |-> Some(trailing_stop),
        trailing_stop_hit |-> Some(RLT(Rat(h.close, 1), trailing_stop)),
        gap_kind |-> gap.kind,
        gap_open |-> IF has_fill THEN Some(back_compat_flags(Val(gap.is_filled_by_close)).gap_open)
                     ELSE None,
        gap_filled |-> IF has_fill THEN Some(back_compat_flags(Val(gap.is_filled_by_close)).gap_filled)
                       ELSE None,
        gap_filled_by_close |-> gap.is_filled_by_close,
        island_reversal |-> Some(detect_island_reversal(h) # None),
        vol_spike |-> mv.is_massive,
        vol_spike_defense_broken |-> mv.low_broken,
        bearish_long_black_engulf |-> omen.long_black_engulf,
        bearish_price_up_vol_down |-> omen.price_up_vol_down,
        bearish_distribution_day |-> omen.distribution_day]

_p_high_from_info_or_history(info, h) ==
    IF info.fiftyTwoWeekHigh # None THEN info.fiftyTwoWeekHigh
    ELSE Some(h.high252)

\* the zone label; the source's labels are
\* SAFE = "安全區", WATCH = "觀察區", NEAR_BOTTOM = "接近抄底區", DEEP = "跌深區"
_rule_35_zone(p_now, p_high) ==
    IF p_now = None \/ p_high = None THEN "MISSING"
    ELSE IF 10 * Val(p_now) >= 8 * Val(p_high) THEN "SAFE"
    ELSE IF 10 * Val(p_now) >= 7 * Val(p_high) THEN "WATCH"
    ELSE IF 100 * Val(p_now) >= 65 * Val(p_high) THEN "NEAR_BOTTOM"
    ELSE "DEEP"

\* gap direction by naming convention
gap_direction(gap_kind) ==
    IF gap_kind = Some("GAP_UP") THEN "UP"
    ELSE IF gap_kind = Some("GAP_DOWN") THEN "DOWN"
    ELSE "UNKNOWN"

\* Mutant of _final_rating: the benchmark regime is consulted after the strong-buy test.
_final_rating_bench_late(evidence_ok, regime, san_yang, vol_attack, vol_ratio, bench_regime, kelly_frac) ==
    IF ~evidence_ok THEN "INSUFFICIENT_DATA"
    ELSE IF kelly_frac # None /\ RLE(Val(kelly_frac), Rat(0, 1)) THEN "STAND_ASIDE"
    ELSE IF regime = "BULL" /\ san_yang = Some(TRUE)
            /\ (vol_attack \/ (vol_ratio # None /\ RLE(Rat(12, 10), Val(vol_ratio))))
    THEN "STRONG_BUY"
    ELSE IF bench_regime # "BULL" THEN "STAND_ASIDE"
    ELSE IF regime = "BULL" THEN "WATCH_ON_PULLBACK"
    ELSE "STAND_ASIDE"

_final_rating(evidence_ok, regime, san_yang, vol_attack, vol_ratio, bench_regime, kelly_frac) ==
    IF ~evidence_ok THEN "INSUFFICIENT_DATA"
    ELSE IF kelly_frac # None /\ RLE(Val(kelly_frac), Rat(0, 1)) THEN "STAND_ASIDE"
    ELSE IF bench_regime # "BULL" THEN "STAND_ASIDE"
    ELSE IF regime = "BULL" /\ san_yang = Some(TRUE)
            /\ (vol_attack \/ (vol_ratio # None /\ RLE(Rat(12, 10), Val(vol_ratio))))
    THEN "STRONG_BUY"
    ELSE IF regime = "BULL" THEN "WATCH_ON_PULLBACK"
    ELSE "STAND_ASIDE"

\* Mutant of required: RSI14 is not on the checklist.
required_without_rsi14(d, b, p_high, rs) ==
    << d.p_now, d.ma20, d.ma60, d.ma150, d.ma200, d.bias60, p_high, d.v_today, d.v_avg,
       d.macd, b.p_now, b.ma150, rs.stop, rs.target, rs.r_val, rs.kelly_f_capped,
       d.trailing_stop, d.trailing_stop_hit, d.gap_open, d.gap_filled,
       d.gap_filled_by_close, d.island_reversal, d.vol_spike_defense_broken,
       d.bearish_long_black_engulf, d.bearish_distribution_day,
       d.bearish_price_up_vol_down >>

\* the evidence checklist
required(d, b, p_high, rs) ==
    << d.p_now, d.ma20, d.ma60, d.ma150, d.ma200, d.bias60, p_high, d.v_today, d.v_avg,
       d.rsi14, d.macd, b.p_now, b.ma150, rs.stop, rs.target, rs.r_val, rs.kelly_f_capped,
       d.trailing_stop, d.trailing_stop_hit, d.gap_open, d.gap_filled,
       d.gap_filled_by_close, d.island_reversal, d.vol_spike_defense_broken,
       d.bearish_long_black_engulf, d.bearish_distribution_day,
       d.bearish_price_up_vol_down >>

\* the keyword arguments build_report passes to choose_win_rate
win_rate_call(d, vol, sy, zone) ==
    [p_now |-> d.p_now, ma150 |-> d.ma150, ma50 |-> d.ma50, ma200 |-> d.ma200,
     vol_ratio |-> vol.vol_ratio, ma20_slope |-> d.ma20_slope, san_yang |-> sy,
     rsi14 |-> d.rsi14, rule_35_zone |-> Some(zone), bias60 |-> d.bias60,
     gap_open |-> d.gap_open, gap_filled |-> d.gap_filled,
     gap_filled_by_close |-> d.gap_filled_by_close,
     gap_direction_by_close |-> Some(gap_direction(d.gap_kind)),
     island_reversal |-> d.island_reversal,
     vol_spike_defense_broken |-> d.vol_spike_defense_broken,
     bearish_long_black_engulf |-> d.bearish_long_black_engulf,
     bearish_distribution_day |-> d.bearish_distribution_day,
     bearish_price_up_vol_down |-> d.bearish_price_up_vol_down]

\* Mutant of evidence_complete: one available field is enough.
evidence_complete_if_any(req) == \E i \in 1..Len(req) : req[i] # None

\* all(x is not None for x in required)
evidence_complete(req) == \A i \in 1..Len(req) : req[i] # None

\* lines 376-622: everything build_report derives from the two snapshots
report_inputs(c, s, bm) ==
    LET d == _compute_from_history(s.history, c.volume_avg_window, c.trailing_stop_pct,
                                   c.vol_spike_window)
        b == _compute_from_history(bm.history, c.volume_avg_window, c.trailing_stop_pct, 20)
        p_high == _p_high_from_info_or_history(s.info, s.history)
        zone == _rule_35_zone(d.p_now, p_high)
        vol == volume_signal(d.v_today, d.v_avg, d.open_, d.close)
        regime == trend_regime(d.p_now, d.ma150)
        bench_regime == trend_regime(b.p_now, b.ma150)
        sy == san_yang_kai_tai(d.ma5, d.ma10, d.ma20, d.ma20_slope)
        w == choose_win_rate(win_rate_call(d, vol, sy, zone))
        rs == risk_stage(d.p_now, d.ma20, p_high, w, c.stop_loss_pct, c.min_rr,
                         c.max_position_pct)
        req == required(d, b, p_high, rs)
        evidence_ok == evidence_complete(req)
    IN [p_now |-> d.p_now, ma5 |-> d.ma5, ma10 |-> d.ma10, ma20 |-> d.ma20,
        ma50 |-> d.ma50, ma60 |-> d.ma60, ma150 |-> d.ma150, ma200 |-> d.ma200,
        bias60 |-> d.bias60, p_high |-> p_high,
        trailing_stop_pct |-> c.trailing_stop_pct,
        trailing_stop |-> d.trailing_stop, trailing_stop_hit |-> d.trailing_stop_hit,
        gap_kind |-> d.gap_kind, gap_open |-> d.gap_open, gap_filled |-> d.gap_filled,
        gap_filled_by_close |-> d.gap_filled_by_close,
        island_reversal |-> d.island_reversal,
        vol_spike |-> d.vol_spike,
        vol_spike_defense_broken |-> d.vol_spike_defense_broken,
        bearish_long_black_engulf |-> d.bearish_long_black_engulf,
        bearish_price_up_vol_down |-> d.bearish_price_up_vol_down,
        bearish_distribution_day |-> d.bearish_distribution_day,
        v_today |-> d.v_today, v_avg |-> d.v_avg,
        vol_ratio |-> vol.vol_ratio, vol_label |-> vol.label,
        rsi14 |-> d.rsi14, macd |-> d.macd,
        bench_p_now |-> b.p_now, bench_ma150 |-> b.ma150, bench_regime |-> bench_regime,
        rule_35_zone |-> zone,
        stop_loss_pct |-> c.stop_loss_pct, stop_from_pct |-> rs.stop_from_pct,
        stop |-> rs.stop, target |-> rs.target, r_ratio |-> rs.r_val,
        kelly_w |-> w, kelly_w_base |-> None, kelly_w_bonus |-> None,
        kelly_w_penalty |-> None, kelly_w_components |-> << >>,
        kelly_f_raw |-> rs.kelly_f_raw, kelly_f_capped |-> rs.kelly_f_capped,
        san_yang |-> IF sy = None THEN "MISSING" ELSE IF Val(sy) THEN "YES" ELSE "NO",
        trend_regime |-> regime,
        final_rating |-> _final_rating(evidence_ok /\ rs.rr_ok, regime, sy, vol.is_attack,
                                       vol.vol_ratio, bench_regime, rs.kelly_f_capped),
        notes |-> rs.notes \cup (IF evidence_ok THEN {} ELSE {"EVIDENCE_MISSING"})]

\* the breakdown choose_win_rate computes and reduces to w_clamped
win_rate_breakdown_of(c, s) ==
    LET d == _compute_from_history(s.history, c.volume_avg_window, c.trailing_stop_pct,
                                   c.vol_spike_window)
        p_high == _p_high_from_info_or_history(s.info, s.history)
        vol == volume_signal(d.v_today, d.v_avg, d.open_, d.close)
        sy == san_yang_kai_tai(d.ma5, d.ma10, d.ma20, d.ma20_slope)
    IN choose_win_rate_breakdown(choose_win_rate_args(
           win_rate_call(d, vol, sy, _rule_35_zone(d.p_now, p_high))))

\* Mutant of config_valid: a stop-loss percentage of exactly 0.5 is accepted.
config_valid_closed_stop_range(c) ==
    /\ RLT(Rat(0, 1), c.stop_loss_pct) /\ RLE(c.stop_loss_pct, Rat(1, 2))
    /\ RLT(Rat(0, 1), c.trailing_stop_pct) /\ RLT(c.trailing_stop_pct, Rat(1, 2))
    /\ RLE(Rat(0, 1), c.min_rr)
    /\ RLT(Rat(0, 1), c.max_position_pct) /\ RLE(c.max_position_pct, Rat(1, 1))

config_valid(c) ==
    /\ RLT(Rat(0, 1), c.stop_loss_pct) /\ RLT(c.stop_loss_pct, Rat(1, 2))
    /\ RLT(Rat(0, 1), c.trailing_stop_pct) /\ RLT(c.trailing_stop_pct, Rat(1, 2))
    /\ RLE(Rat(0, 1), c.min_rr)
    /\ RLT(Rat(0, 1), c.max_position_pct) /\ RLE(c.max_position_pct, Rat(1, 1))

\* Mutant of fetch_failed: an empty history is returned as a snapshot.
fetch_failed_on_error_only(outcome) == outcome = "error"

\* fetch_snapshot raises when the download fails or returns no rows
fetch_failed(outcome) == outcome # "ok"

\* the exception a failed fetch_snapshot raises
fetch_exception(outcome) ==
    [raised |-> IF outcome = "empty" THEN "RuntimeError" ELSE "Exception"]

\* Mutant of compute_raises: a missing MA20 is converted with float() and raises.
compute_raises_on_missing_ma20(c, s) ==
    LET d == _compute_from_history(s.history, c.volume_avg_window, c.trailing_stop_pct,
                                   c.vol_spike_window)
    IN d.ma20 = None

\* whether the computation stage of build_report raises: the only raise statement
\* it can reach is _stop_target's rejection of a negative min_rr
compute_raises(c, s) ==
    LET d == _compute_from_history(s.history, c.volume_avg_window, c.trailing_stop_pct,
                                   c.vol_spike_window)
    IN _stop_target(d.p_now, d.ma20, _p_high_from_info_or_history(s.info, s.history),
                    c.stop_loss_pct, c.min_rr).raises

---------------------------------------------------------------------------
(* Specification of build_report: validation, the two fetches, and the     *)
(* computation and writing of the report.  A world fixes the call's        *)
(* arguments and what the data source would return.                        *)

\* a complete, bullish history in a bullish market
WorldBull ==
    [stop_loss_pct |-> Rat(5, 100), trailing_stop_pct |-> Rat(5, 100),
     min_rr |-> Rat(0, 1), max_position_pct |-> Rat(20, 100),
     volume_avg_window |-> 20, vol_spike_window |-> 20,
     s_fetch |-> "ok", b_fetch |-> "ok",
     info_high |-> Some(150),
     n |-> 252, open |-> 105, close |-> 110, high252 |-> 120,
     ma5 |-> 108, ma10 |-> 107, ma20 |-> 106, ma20_lag |-> 104,
     ma50 |-> 103, ma60 |-> 102, ma150 |-> 100, ma200 |-> 98,
     volume |-> 200, v_avg |-> 100, rsi |-> Some(50), macd |-> 1,
     gap |-> "UP_OPEN", island |-> FALSE, bull_island |-> "NONE", mv |-> "HELD",
     engulf |-> FALSE, price_up_vol_down |-> FALSE, distribution_day |-> FALSE,
     b_n |-> 252, b_close |-> 110, b_ma150 |-> 100]

\* a complete history trading below its long averages
WorldBear ==
    [WorldBull EXCEPT !.open = 92, !.close = 90, !.ma5 = 91, !.ma10 = 93, !.ma20 = 95,
                      !.ma20_lag = 97, !.ma50 = 97, !.ma60 = 98, !.gap = "DOWN_OPEN",
                      !.volume = 100]

\* a history of a single row: no average, no gap, no volume window
WorldShort ==
    [WorldBull EXCEPT !.n = 1, !.high252 = 110, !.gap = "NONE", !.mv = "NO_HIT",
                      !.rsi = None]

WorldDomain ==
    [stop_loss_pct |-> {Rat(5, 100), Rat(10, 100), Rat(1, 2)},
     trailing_stop_pct |-> {Rat(5, 100), Rat(0, 1)},
     min_rr |-> {Rat(0, 1), Rat(5, 2), Rat(-1, 1)},
     max_position_pct |-> {Rat(20, 100), Rat(1, 1), Rat(0, 1)},
     s_fetch |-> {"ok", "error", "empty"},
     b_fetch |-> {"ok", "error", "empty"},
     info_high |-> {None, Some(150), Some(111), Some(100)},
     n |-> {1, 4, 14, 19, 24, 25, 59, 149, 199, 252},
     open |-> {105, 115},
     close |-> {110, 90},
     high252 |-> {120, 110},
     ma5 |-> {108, 105},
     ma20 |-> {106, 104, 112},
     ma20_lag |-> {104, 108},
     ma50 |-> {103, 95},
     ma60 |-> {102, 99},
     ma150 |-> {100, 115},
     volume |-> {200, 100},
     rsi |-> {None, Some(50), Some(20)},
     gap |-> {"NONE", "EXPIRED", "UP_OPEN", "UP_FILLED", "DOWN_OPEN", "DOWN_FILLED"},
     island |-> BOOLEAN,
     bull_island |-> {"NONE", "OLDER", "NEWER"},
     mv |-> {"NO_HIT", "HELD", "BROKEN"},
     engulf |-> BOOLEAN,
     price_up_vol_down |-> BOOLEAN,
     distribution_day |-> BOOLEAN,
     b_n |-> {252, 100},
     b_close |-> {110, 90}]

\* what a daily price history can be
WorldWellFormed(w) ==
    /\ w.close <= w.high252
    /\ w.n >= 5 => w.ma5 <= w.high252
    /\ w.n >= 20 => w.ma20 <= w.high252
    /\ w.n >= 150 => w.ma150 <= w.high252
    /\ w.volume <= w.volume_avg_window * w.v_avg
    /\ w.gap # "NONE" => w.n >= 2
    /\ w.island => w.n >= 4 /\ w.gap # "NONE"
    /\ w.bull_island # "NONE" => w.n >= 4 /\ w.gap # "NONE"
    /\ w.engulf => w.n >= 2 /\ w.close < w.open
    /\ w.price_up_vol_down => w.n >= 2 /\ ~w.distribution_day
    /\ w.distribution_day => w.n >= w.vol_spike_window + 1
    /\ w.mv # "NO_HIT" => w.n >= w.vol_spike_window
    \* RSI is undefined on a long history only if no close ever fell
    /\ (w.n >= 15 /\ w.rsi = None) =>
           /\ w.gap \notin {"DOWN_OPEN", "DOWN_FILLED"} /\ ~w.island
           /\ w.bull_island = "NONE" /\ ~w.distribution_day
           /\ w.ma5 <= w.close /\ (w.n >= 20 => w.ma20 <= w.close)
           /\ (w.n >= 50 => w.ma50 <= w.close) /\ (w.n >= 60 => w.ma60 <= w.close)
           /\ (w.n >= 150 => w.ma150 <= w.close) /\ (w.n >= 200 => w.ma200 <= w.close)

MaxVaried == 2

MaxShortVaried == 1

Worlds == { w \in Vary({WorldBull, WorldBear}, WorldDomain, MaxVaried) : WorldWellFormed(w) }

\* worlds whose ticker has just been listed
ShortWorlds == { w \in Vary({WorldShort}, WorldDomain, MaxShortVaried) : WorldWellFormed(w) }

\* the history the data source holds for the ticker
subject_history(w) ==
    [n |-> w.n, open |-> w.open, close |-> w.close, high252 |-> w.high252,
     ma5 |-> w.ma5, ma10 |-> w.ma10, ma20 |-> w.ma20, ma20_lag |-> w.ma20_lag,
     ma50 |-> w.ma50, ma60 |-> w.ma60, ma150 |-> w.ma150, ma200 |-> w.ma200,
     volume |-> w.volume, v_avg |-> w.v_avg, rsi |-> w.rsi, macd |-> w.macd,
     gap |-> w.gap, island |-> w.island, mv |-> w.mv, engulf |-> w.engulf,
     price_up_vol_down |-> w.price_up_vol_down, distribution_day |-> w.distribution_day]

\* the history the data source holds for the benchmark
benchmark_history(w) ==
    [subject_history(WorldBull) EXCEPT !.n = w.b_n, !.close = w.b_close,
                                       !.ma150 = w.b_ma150]

config(w) ==
    [stop_loss_pct |-> w.stop_loss_pct, trailing_stop_pct |-> w.trailing_stop_pct,
     min_rr |-> w.min_rr, max_position_pct |-> w.max_position_pct,
     volume_avg_window |-> w.volume_avg_window, vol_spike_window |-> w.vol_spike_window]

Init ==
    /\ (world \in Worlds \/ world \in ShortWorlds)
    /\ pc = "validate"
    /\ snap = None /\ bench = None /\ fetched = << >>
    /\ report = None /\ bd = None /\ written = FALSE
    /\ args = None /\ ret = None

\* lines 364-371
Validate ==
    /\ pc = "validate"
    /\ IF config_valid(config(world))
       THEN pc' = "fetch_ticker" /\ ret' = ret
       ELSE pc' = "raised" /\ ret' = Some([raised |-> "ValueError"])
    /\ UNCHANGED <<world, snap, bench, fetched, report, bd, written, args>>

\* line 373; fetch_snapshot raises on a failed download or an empty history
FetchTicker ==
    /\ pc = "fetch_ticker"
    /\ fetched' = Append(fetched, "ticker")
    /\ IF fetch_failed(world.s_fetch)
       THEN /\ snap' = snap
            /\ pc' = "raised"
            /\ ret' = Some(fetch_exception(world.s_fetch))
       ELSE /\ snap' = Some([history |-> subject_history(world),
                             info |-> [fiftyTwoWeekHigh |-> world.info_high]])
            /\ pc' = "fetch_benchmark"
            /\ ret' = ret
    /\ UNCHANGED <<world, bench, report, bd, written, args>>

\* line 374
FetchBenchmark ==
    /\ pc = "fetch_benchmark"
    /\ fetched' = Append(fetched, "benchmark")
    /\ IF fetch_failed(world.b_fetch)
       THEN /\ bench' = bench
            /\ pc' = "raised"
            /\ ret' = Some(fetch_exception(world.b_fetch))
       ELSE /\ bench' = Some([history |-> benchmark_history(world),
                              info |-> [fiftyTwoWeekHigh |-> None]])
            /\ pc' = "compute"
            /\ ret' = ret
    /\ UNCHANGED <<world, snap, report, bd, written, args>>

\* lines 376-630: derive every field, rate, and write the report
ComputeAndWrite ==
    /\ pc = "compute"
    /\ IF compute_raises(config(world), Val(snap))
       THEN /\ pc' = "raised"
            /\ ret' = Some([raised |-> "ValueError"])
            /\ UNCHANGED <<report, bd, written>>
       ELSE /\ report' = Some(report_inputs(config(world), Val(snap), Val(bench)))
            /\ bd' = Some(win_rate_breakdown_of(config(world), Val(snap)))
            /\ written' = TRUE
            /\ pc' = "done"
            /\ ret' = ret
    /\ UNCHANGED <<world, snap, bench, fetched, args>>

Next == Validate \/ FetchTicker \/ FetchBenchmark \/ ComputeAndWrite

Spec == Init /\ [][Next]_vars

\* build_report called with stop-loss percentages down to the smallest the
\* validation accepts
StopLossPcts == {Rat(1, 10000), half_spacing_below_one, Rat(1, 100), Rat(5, 100)}

StopWorlds ==
    { [w EXCEPT !.stop_loss_pct = p] :
          w \in { v \in Vary({WorldBull, WorldBear}, WorldDomain, 1) : WorldWellFormed(v) },
          p \in StopLossPcts }

InitStop ==
    /\ world \in StopWorlds
    /\ pc = "validate"
    /\ snap = None /\ bench = None /\ fetched = << >>
    /\ report = None /\ bd = None /\ written = FALSE
    /\ args = None /\ ret = None

SpecStop == InitStop /\ [][Next]_vars

\* the positions build_report passes through
Positions == {"validate", "fetch_ticker", "fetch_benchmark", "compute", "done", "raised"}

\* build_report leaves a position it has not returned or raised from
Advance == pc \notin {"done", "raised"} /\ pc' \in Positions /\ pc' # pc

\* build_report waits on nothing: from every position short of its return or an
\* exception, the interpreter executes the next statement
SpecLive == Spec /\ WF_pc(Advance)

---------------------------------------------------------------------------
(* Specification of the risk stage and of rules.kelly as pure operations   *)

MaxSpread == 5

RiskPrices == { Some(p) : p \in (100 - MaxSpread)..(100 + MaxSpread) }

RiskWinRates == {None, Some(0), Some(1500), Some(4000), Some(6000), Some(8500), Some(10000)}

RiskInputs ==
    [fn : {"risk_stage"},
     entry : {None, Some(100)},
     ma20 : {None} \cup RiskPrices,
     p_high : {None} \cup RiskPrices,
     stop : {None},
     target : {None},
     stop_loss_pct : {Rat(5, 100), Rat(1, 10)},
     min_rr : {Rat(0, 1), Rat(1, 2), Rat(5, 2)},
     w : RiskWinRates,
     max_position_pct : {Rat(20, 100), Rat(1, 1)}]

KellyInputs ==
    [fn : {"kelly"},
     entry : {Some(100)},
     ma20 : {None},
     p_high : {None},
     stop : RiskPrices,
     target : RiskPrices,
     stop_loss_pct : {Rat(5, 100)},
     min_rr : {Rat(0, 1)},
     w : RiskWinRates \ {None},
     max_position_pct : {Rat(20, 100), Rat(1, 1)}]

InitRisk ==
    /\ args \in RiskInputs \cup KellyInputs
    /\ ret = None
    /\ pc = "call"
    /\ world = None /\ snap = None /\ bench = None /\ fetched = << >>
    /\ report = None /\ bd = None /\ written = FALSE

CallRiskStage ==
    /\ pc = "call"
    /\ args.fn = "risk_stage"
    /\ ret' = Some(risk_stage(args.entry, args.ma20, args.p_high, args.w,
                              args.stop_loss_pct, args.min_rr, args.max_position_pct))
    /\ pc' = "ret"
    /\ UNCHANGED <<world, snap, bench, fetched, report, bd, written, args>>

CallKelly ==
    /\ pc = "call"
    /\ args.fn = "kelly"
    /\ ret' = Some(kelly(Val(args.entry), Val(args.stop), Val(args.target),
                         Val(args.w), args.max_position_pct))
    /\ pc' = "ret"
    /\ UNCHANGED <<world, snap, bench, fetched, report, bd, written, args>>

NextRisk == CallRiskStage \/ CallKelly

SpecRisk == InitRisk /\ [][NextRisk]_vars

---------------------------------------------------------------------------
(* Claims about the risk stage (checked under SpecRisk)                    *)

RiskCall == pc = "ret" /\ args.fn = "risk_stage"

\* entry * (1 - stop_loss_pct)
PctStop(a) == RMul(Rat(Val(a.entry), 1), RSub(Rat(1, 1), a.stop_loss_pct))

\* the stop the policy prescribes for a long entry
PolicyStop(a) ==
    IF a.ma20 # None /\ Val(a.ma20) < Val(a.entry)
    THEN RMax(Rat(Val(a.ma20), 1), PctStop(a))
    ELSE PctStop(a)

\* (P_high - entry) / (entry - policy stop)
RawR(a) ==
    RDiv(RSub(Rat(Val(a.p_high), 1), Rat(Val(a.entry), 1)),
         RSub(Rat(Val(a.entry), 1), PolicyStop(a)))

C8_MinRrOverridesTarget ==
    (RiskCall /\ args.entry # None /\ args.p_high # None) =>
        LET q == Val(ret)
            e == Rat(Val(args.entry), 1)
        IN
        /\ (RLT(Rat(0, 1), RawR(args)) /\ RLT(RawR(args), args.min_rr)) =>
              /\ REQ(Val(q.target), RAdd(e, RMul(args.min_rr, RSub(e, PolicyStop(args)))))
              /\ q.r_val # None
              /\ REQ(Val(q.r_val), args.min_rr)
              /\ REQ(Val(q.stop), PolicyStop(args))
              /\ q.target_mode = "MIN_RR"
              /\ "TARGET_FROM_MIN_RR" \in q.notes
        /\ RLE(args.min_rr, RawR(args)) =>
              /\ REQ(Val(q.target), Rat(Val(args.p_high), 1))
              /\ q.target_mode # "MIN_RR"
              /\ "TARGET_FROM_MIN_RR" \notin q.notes

\* entry = 100, stop = 95, P_high = 101, min_rr = 2.5: target 112.5, R = 2.5
C8_Witness ==
    /\ RiskCall
    /\ args.entry = Some(100)
    /\ args.ma20 = None
    /\ args.p_high = Some(101)
    /\ args.stop_loss_pct = Rat(5, 100)
    /\ args.min_rr = Rat(5, 2)
    /\ REQ(Val(Val(ret).target), Rat(225, 2))
    /\ REQ(Val(Val(ret).r_val), Rat(5, 2))
    /\ Val(ret).target_mode = "MIN_RR"

\* f x R = W x (R + 1) - 1 and f_capped = max(0, min(cap, f)), for R > 0
KellyAsClaimed(w, r, cap, f, f_capped) ==
    /\ RLT(Rat(0, 1), r)
    /\ REQ(RMul(f, r), RSub(RMul(Rat(w, 10000), RAdd(r, Rat(1, 1))), Rat(1, 1)))
    /\ RLE(Rat(0, 1), f_capped)
    /\ RLE(f_capped, cap)
    /\ RLE(f, Rat(0, 1)) => REQ(f_capped, Rat(0, 1))
    /\ (RLE(Rat(0, 1), f) /\ RLE(f, cap)) => REQ(f_capped, f)
    /\ RLE(cap, f) => REQ(f_capped, cap)

\* C10: for W in [0, 1], R > 0 and a cap in (0, 1], f_raw = (W x (R + 1) - 1) / R
\* and f_capped = max(0, min(max_position_pct, f_raw)), so f_capped is in
\* [0, max_position_pct] and is 0 whenever f_raw <= 0; both are computed only
\* when W, entry, stop, target and R are all defined and are None otherwise.
C10_KellyFraction ==
    pc = "ret" =>
        LET q == Val(ret) IN
        IF args.fn = "risk_stage"
        THEN LET sized == args.w # None /\ args.entry # None /\ q.stop # None
                            /\ q.target # None /\ q.r_val # None
             IN /\ (q.kelly_f_raw # None) <=> sized
                /\ (q.kelly_f_capped # None) <=> sized
                /\ sized => KellyAsClaimed(Val(args.w), Val(q.r_val), args.max_position_pct,
                                           Val(q.kelly_f_raw), Val(q.kelly_f_capped))
        ELSE ~q.raises =>
                KellyAsClaimed(Val(args.w), Val(q.r), args.max_position_pct,
                               Val(q.f_raw), Val(q.f_capped))

\* a negative raw fraction is floored to 0
C10_Witness ==
    /\ RiskCall
    /\ Val(ret).kelly_f_raw # None
    /\ RLT(Val(Val(ret).kelly_f_raw), Rat(0, 1))
    /\ REQ(Val(Val(ret).kelly_f_capped), Rat(0, 1))

---------------------------------------------------------------------------
(* Specification of choose_win_rate_breakdown as a pure operation          *)

OptBool == {None, Some(TRUE), Some(FALSE)}

WinRateDomain ==
    [p_now |-> {None, Some(90), Some(110)},
     ma150 |-> {None, Some(100)},
     ma50 |-> {None, Some(190), Some(210)},
     ma200 |-> {None, Some(200)},
     vol_ratio |-> {None, Some(Rat(9, 10)), Some(Rat(12, 10))},
     ma20_slope |-> {None, Some(1)},
     san_yang |-> OptBool,
     rsi14 |-> {None, Some(20), Some(30)},
     rule_35_zone |-> {None, Some("GOLD"), Some("SAFE")},
     bias60 |-> {None, Some(Rat(5, 1)), Some(Rat(10, 1))},
     gap_open |-> OptBool,
     gap_filled |-> OptBool,
     gap_filled_by_close |-> OptBool,
     gap_direction_by_close |-> {None, Some("UP"), Some("DOWN"), Some("UNKNOWN")},
     island_reversal_bearish |-> OptBool,
     island_reversal_bullish |-> OptBool,
     vol_spike_defense_broken |-> OptBool,
     bearish_long_black_engulf |-> OptBool,
     bearish_distribution_day |-> OptBool,
     bearish_price_up_vol_down |-> OptBool,
     san_sheng_wu_nai |-> OptBool]

\* tests/test_winrate_breakdown.py: bull base, nothing else supplied
WinRateBare ==
    [f \in DOMAIN WinRateDomain |->
        CASE f = "p_now" -> Some(110)
          [] f = "ma150" -> Some(100)
          [] f = "ma50" -> Some(210)
          [] f = "ma200" -> Some(200)
          [] OTHER -> None]

\* every bonus applies, no penalty does
WinRateFavourable ==
    [p_now |-> Some(110), ma150 |-> Some(100), ma50 |-> Some(210), ma200 |-> Some(200),
     vol_ratio |-> Some(Rat(12, 10)), ma20_slope |-> Some(1), san_yang |-> Some(TRUE),
     rsi14 |-> Some(20), rule_35_zone |-> Some("GOLD"), bias60 |-> Some(Rat(5, 1)),
     gap_open |-> Some(FALSE), gap_filled |-> Some(TRUE),
     gap_filled_by_close |-> Some(TRUE), gap_direction_by_close |-> Some("DOWN"),
     island_reversal_bearish |-> Some(FALSE), island_reversal_bullish |-> Some(TRUE),
     vol_spike_defense_broken |-> Some(FALSE), bearish_long_black_engulf |-> Some(FALSE),
     bearish_distribution_day |-> Some(FALSE), bearish_price_up_vol_down |-> Some(FALSE),
     san_sheng_wu_nai |-> Some(FALSE)]

\* bear base, every penalty applies, no bonus does
WinRateAdverse ==
    [p_now |-> Some(90), ma150 |-> Some(100), ma50 |-> Some(190), ma200 |-> Some(200),
     vol_ratio |-> Some(Rat(9, 10)), ma20_slope |-> Some(1), san_yang |-> Some(FALSE),
     rsi14 |-> Some(30), rule_35_zone |-> Some("SAFE"), bias60 |-> Some(Rat(10, 1)),
     gap_open |-> Some(TRUE), gap_filled |-> Some(FALSE),
     gap_filled_by_close |-> Some(TRUE), gap_direction_by_close |-> Some("UP"),
     island_reversal_bearish |-> Some(TRUE), island_reversal_bullish |-> Some(FALSE),
     vol_spike_defense_broken |-> Some(TRUE), bearish_long_black_engulf |-> Some(TRUE),
     bearish_distribution_day |-> Some(TRUE), bearish_price_up_vol_down |-> Some(FALSE),
     san_sheng_wu_nai |-> Some(TRUE)]

MaxArgsVaried == 2

WinRateInputs ==
    Vary({WinRateBare, WinRateFavourable, WinRateAdverse}, WinRateDomain, MaxArgsVaried)

InitWinRate ==
    /\ args \in WinRateInputs
    /\ ret = None
    /\ pc = "call"
    /\ world = None /\ snap = None /\ bench = None /\ fetched = << >>
    /\ report = None /\ bd = None /\ written = FALSE

CallChooseWinRateBreakdown ==
    /\ pc = "call"
    /\ ret' = Some(choose_win_rate_breakdown(args))
    /\ pc' = "ret"
    /\ UNCHANGED <<world, snap, bench, fetched, report, bd, written, args>>

NextWinRate == CallChooseWinRateBreakdown

SpecWinRate == InitWinRate /\ [][NextWinRate]_vars

---------------------------------------------------------------------------
(* Claims about choose_win_rate_breakdown (checked under SpecWinRate)      *)

BaseInputMissing(a) ==
    a.p_now = None \/ a.ma150 = None \/ a.ma50 = None \/ a.ma200 = None

RECURSIVE SumDeltas(_, _)
SumDeltas(components, kinds) ==
    IF components = << >> THEN 0
    ELSE (IF Head(components).kind \in kinds THEN Head(components).delta ELSE 0)
         + SumDeltas(Tail(components), kinds)

\* The rule table of the scoring model: the delta and the inputs of each rule.
RuleTable ==
    [SanYang |-> [kind |-> "BONUS", delta |-> 1000, inputs |-> {"san_yang"}],
     ValueReversion |-> [kind |-> "BONUS", delta |-> 2000,
                         inputs |-> {"rule_35_zone", "rsi14"}],
     BullMomentum |-> [kind |-> "BONUS", delta |-> 1000, inputs |-> {"vol_ratio", "bias60"}],
     GapCloseDown |-> [kind |-> "BONUS", delta |-> 1000,
                       inputs |-> {"gap_filled_by_close", "gap_direction_by_close"}],
     GapCloseUp |-> [kind |-> "PENALTY", delta |-> -1000,
                     inputs |-> {"gap_filled_by_close", "gap_direction_by_close"}],
     TopIsland |-> [kind |-> "PENALTY", delta |-> -1000,
                    inputs |-> {"island_reversal_bearish"}],
     BottomIsland |-> [kind |-> "BONUS", delta |-> 1000,
                       inputs |-> {"island_reversal_bullish"}],
     DefenseBroken |-> [kind |-> "PENALTY", delta |-> -1000,
                        inputs |-> {"vol_spike_defense_broken"}],
     LongBlackEngulf |-> [kind |-> "PENALTY", delta |-> -1000,
                          inputs |-> {"bearish_long_black_engulf"}],
     SanShengWuNai |-> [kind |-> "PENALTY", delta |-> -1000,
                        inputs |-> {"san_sheng_wu_nai"}],
     OpenGap |-> [kind |-> "PENALTY", delta |-> -1000, inputs |-> {"gap_open", "gap_filled"}]]

ComponentsNamed(components, name) ==
    { i \in 1..Len(components) : components[i].name = name }

\* C3: base, w_raw and w_clamped are None exactly when one of p_now, ma150,
\* ma50, ma200 is None (and then only the base component is recorded, no rule is
\* evaluated); otherwise w_clamped is defined, lies in [0.15, 0.85], is 0.15
\* when the raw sum is below 0.15 and 0.85 when it is above 0.85.
C3_WinRateGateAndClamp ==
    pc = "ret" =>
        LET r == Val(ret) IN
        /\ (r.base = None) <=> BaseInputMissing(args)
        /\ (r.w_raw = None) <=> BaseInputMissing(args)
        /\ (r.w_clamped = None) <=> BaseInputMissing(args)
        /\ BaseInputMissing(args) =>
              /\ Len(r.components) = 1
              /\ r.components[1].kind = "BASE"
        /\ ~BaseInputMissing(args) =>
              /\ Val(r.w_clamped) >= 1500
              /\ Val(r.w_clamped) <= 8500
              /\ (Val(r.w_raw) < 1500 => Val(r.w_clamped) = 1500)
              /\ (Val(r.w_raw) > 8500 => Val(r.w_clamped) = 8500)

\* a raw sum above 0.85 was clamped to 0.85
C3_Witness ==
    /\ pc = "ret"
    /\ Val(ret).w_raw # None
    /\ Val(Val(ret).w_raw) > 8500
    /\ Val(ret).w_clamped = Some(8500)

\* C4: with a computable base, w_raw is the sum of the deltas of the listed
\* components; the base component carries 0.60 iff p_now > ma150 and
\* ma50 > ma200, else 0.30; an APPLIED rule carries its rule's delta, a
\* NOT_APPLIED or SKIPPED_MISSING one carries 0; bonus_total and penalty_total
\* are the sums of the BONUS and of the PENALTY deltas.
C4_RawIsSumOfListedComponents ==
    (pc = "ret" /\ ~BaseInputMissing(args)) =>
        LET r == Val(ret)
            cs == r.components
        IN
        /\ Val(r.w_raw) = SumDeltas(cs, {"BASE", "BONUS", "PENALTY"})
        /\ r.bonus_total = SumDeltas(cs, {"BONUS"})
        /\ r.penalty_total = SumDeltas(cs, {"PENALTY"})
        /\ cs[1].kind = "BASE"
        /\ cs[1].delta = (IF Val(args.p_now) > Val(args.ma150)
                             /\ Val(args.ma50) > Val(args.ma200) THEN 6000 ELSE 3000)
        /\ \A i \in 2..Len(cs) :
              /\ cs[i].name \in DOMAIN RuleTable
              /\ cs[i].kind = RuleTable[cs[i].name].kind
              /\ cs[i].status = "APPLIED" => cs[i].delta = RuleTable[cs[i].name].delta
              /\ cs[i].status \in {"NOT_APPLIED", "SKIPPED_MISSING"} => cs[i].delta = 0

\* bonuses and penalties both applied and both visible in the list
C4_Witness ==
    /\ pc = "ret"
    /\ ~BaseInputMissing(args)
    /\ Val(ret).bonus_total >= 2000
    /\ Val(ret).penalty_total <= -2000

\* C5: with a computable base, a rule one of whose inputs is None is listed as
\* SKIPPED_MISSING with delta 0 and missing_fields naming exactly its None
\* inputs; every rule is still listed once and w_raw / w_clamped are defined.
C5_MissingRuleInputIsSkipped ==
    (pc = "ret" /\ ~BaseInputMissing(args)) =>
        LET r == Val(ret)
            cs == r.components
        IN
        /\ r.w_raw # None
        /\ r.w_clamped # None
        /\ \A name \in DOMAIN RuleTable :
              LET absent == { f \in RuleTable[name].inputs : args[f] = None }
              IN
              /\ Cardinality(ComponentsNamed(cs, name)) = 1
              /\ absent # {} =>
                    \A i \in ComponentsNamed(cs, name) :
                        /\ cs[i].status = "SKIPPED_MISSING"
                        /\ cs[i].delta = 0
                        /\ { cs[i].missing_fields[k] : k \in 1..Len(cs[i].missing_fields) }
                               = absent
                        /\ Len(cs[i].missing_fields) = Cardinality(absent)

\* one input of a two-input rule is None while other rules are applied
C5_Witness ==
    /\ pc = "ret"
    /\ ~BaseInputMissing(args)
    /\ args.rule_35_zone # None
    /\ args.rsi14 = None
    /\ \E i \in 1..Len(Val(ret).components) :
          /\ Val(ret).components[i].name = "ValueReversion"
          /\ Val(ret).components[i].missing_fields = << "rsi14" >>
    /\ Val(ret).bonus_total > 0

---------------------------------------------------------------------------
(* Claims about build_report (checked under Spec)                          *)

ReportDone == pc = "done" /\ written /\ report # None

\* the fields of the evidence checklist, as the report shows them
Checklist(r) ==
    << r.p_now, r.ma5, r.ma10, r.ma20, r.ma50, r.ma60, r.ma150, r.ma200, r.bias60,
       r.p_high, r.v_today, r.v_avg, r.rsi14, r.macd, r.bench_p_now, r.bench_ma150,
       r.stop, r.target, r.r_ratio, r.kelly_f_capped, r.trailing_stop,
       r.trailing_stop_hit, r.gap_open, r.gap_filled, r.gap_filled_by_close,
       r.island_reversal, r.vol_spike_defense_broken, r.bearish_long_black_engulf,
       r.bearish_price_up_vol_down, r.bearish_distribution_day >>

ChecklistComplete(r) == \A i \in 1..Len(Checklist(r)) : Checklist(r)[i] # None

\* every strong-buy condition on the ticker itself
StrongBuyConditions(r) ==
    /\ r.trend_regime = "BULL"
    /\ r.san_yang = "YES"
    /\ (r.vol_label = "ATTACK" \/ (r.vol_ratio # None /\ RLE(Rat(12, 10), Val(r.vol_ratio))))

\* C1: if any one field of the evidence checklist is undefined in the report,
\* the final rating is the insufficient-data label, whatever the other fields are.
C1_MissingEvidenceForbidsRating ==
    ReportDone =>
        (~ChecklistComplete(Val(report)) => Val(report).final_rating = "INSUFFICIENT_DATA")

\* RSI14 alone is undefined (no close ever fell) on a ticker that otherwise meets every
\* strong-buy condition with a positive Kelly fraction in a bullish market
C1_Witness ==
    /\ ReportDone
    /\ Val(report).rsi14 = None
    /\ \A i \in 1..Len(Checklist(Val(report))) :
           i # 13 => Checklist(Val(report))[i] # None
    /\ StrongBuyConditions(Val(report))
    /\ Val(report).bench_regime = "BULL"
    /\ RLT(Rat(0, 1), Val(Val(report).kelly_f_capped))
    /\ Val(report).final_rating = "INSUFFICIENT_DATA"

\* the rating the ordered rules prescribe for a report
RatingInOrder(r, min_rr) ==
    IF ~ChecklistComplete(r) \/ ~(r.r_ratio # None /\ RLE(min_rr, Val(r.r_ratio)))
    THEN "INSUFFICIENT_DATA"
    ELSE IF RLE(Val(r.kelly_f_capped), Rat(0, 1)) THEN "STAND_ASIDE"
    ELSE IF r.bench_regime # "BULL" THEN "STAND_ASIDE"
    ELSE IF StrongBuyConditions(r) THEN "STRONG_BUY"
    ELSE IF r.trend_regime = "BULL" THEN "WATCH_ON_PULLBACK"
    ELSE "STAND_ASIDE"

\* C2: the final rating is decided in order, first match wins: (1) evidence incomplete
\* or R/R gate failed -> insufficient data; (2) capped Kelly <= 0 -> stand aside;
\* (3) benchmark regime != BULL -> stand aside; (4) ticker BULL, SanYangKaiTai and
\* (attack volume or vol_ratio >= 1.2) -> strong buy; (5) ticker BULL -> watch on
\* pullback; (6) otherwise stand aside.
C2_RatingDecidedInOrder ==
    ReportDone =>
        Val(report).final_rating = RatingInOrder(Val(report), world.min_rr)

\* a ticker meeting every strong-buy condition, evidence complete and Kelly positive,
\* is rated stand aside because the benchmark is not in a BULL regime
C2_Witness ==
    /\ ReportDone
    /\ ChecklistComplete(Val(report))
    /\ Val(report).r_ratio # None /\ RLE(world.min_rr, Val(Val(report).r_ratio))
    /\ RLT(Rat(0, 1), Val(Val(report).kelly_f_capped))
    /\ StrongBuyConditions(Val(report))
    /\ Val(report).bench_regime # "BULL"
    /\ Val(report).final_rating = "STAND_ASIDE"

\* the status the win-rate breakdown gives a named rule
RuleStatus(b, name) ==
    LET idx == { i \in 1..Len(b.components) : b.components[i].name = name }
    IN IF idx = {} THEN "ABSENT" ELSE b.components[CHOOSE i \in idx : TRUE].status

\* C6: when the history contains both a bearish and a bullish island reversal, the
\* win rate of the report applies only the rule of the later one: the bottom-island
\* bonus if the bullish reversal is later, the top-island penalty if the bearish
\* reversal is later, and never both.
C6_OnlyLatestIslandCounts ==
    (ReportDone /\ world.island /\ world.bull_island # "NONE" /\ Val(report).kelly_w # None)
    => IF world.bull_island = "NEWER"
       THEN /\ RuleStatus(Val(bd), "BottomIsland") = "APPLIED"
            /\ RuleStatus(Val(bd), "TopIsland") # "APPLIED"
       ELSE /\ RuleStatus(Val(bd), "TopIsland") = "APPLIED"
            /\ RuleStatus(Val(bd), "BottomIsland") # "APPLIED"

\* a report for a history whose bullish island reversal is the later of the two
C6_Witness ==
    /\ ReportDone
    /\ world.island /\ world.bull_island = "NEWER"
    /\ Val(report).kelly_w # None
    /\ RuleStatus(Val(bd), "TopIsland") = "APPLIED"
    /\ RuleStatus(Val(bd), "BottomIsland") = "SKIPPED_MISSING"

\* C9: when the 52-week-high target is at or below entry (R <= 0), the stop is the
\* plain percentage stop entry x (1 - stop_loss_pct) even if MA20 is defined, below
\* entry and above that stop; R is undefined while the target is still reported; no
\* Kelly fraction is computed and the rating is insufficient data.
C9_TargetAtOrBelowEntry ==
    (ReportDone /\ Val(Val(report).p_high) <= Val(Val(report).p_now))
    => LET r == Val(report)
       IN /\ r.stop # None
          /\ REQ(Val(r.stop), RMul(Rat(Val(r.p_now), 1), RSub(Rat(1, 1), world.stop_loss_pct)))
          /\ r.r_ratio = None
          /\ r.target # None /\ REQ(Val(r.target), Rat(Val(r.p_high), 1))
          /\ r.kelly_f_raw = None /\ r.kelly_f_capped = None
          /\ r.final_rating = "INSUFFICIENT_DATA"

\* MA20 is defined, below entry and above the percentage stop, yet the stop reported
\* is the percentage stop
C9_Witness ==
    /\ ReportDone
    /\ Val(Val(report).p_high) <= Val(Val(report).p_now)
    /\ Val(report).ma20 # None
    /\ Val(Val(report).ma20) < Val(Val(report).p_now)
    /\ RLT(Val(Val(report).stop), Rat(Val(Val(report).ma20), 1))
    /\ Val(report).target # None
    /\ Val(report).final_rating = "INSUFFICIENT_DATA"

---------------------------------------------------------------------------
(* laowang.py on the rows of a history.  A history is a record             *)
(* [required_columns, rows]; a row is [date, open, high, low, close,       *)
(* volume] with dates as day numbers.  Row indices are 0-based as in the   *)
(* source: Row(df, i) is df.iloc[i].                                       *)

Row(df, i) == df[i + 1]

\* df.tail(k)
TailRows(rows, k) ==
    IF Len(rows) <= k THEN rows ELSE SubSeq(rows, Len(rows) - k + 1, Len(rows))

Max2(a, b) == IF a >= b THEN a ELSE b

Min2(a, b) == IF a <= b THEN a ELSE b

GapEvent(kind, date, prev_date, lower, upper) ==
    [kind |-> kind, date |-> date, prev_date |-> prev_date, lower |-> lower, upper |-> upper]

GapStatus(last_gap, lookback_days, is_expired, is_filled_by_close, fill_date_by_close, fill_close_by_close, reclaim_level) ==
    [last_gap |-> last_gap, lookback_days |-> lookback_days, is_expired |-> is_expired,
     is_filled_by_close |-> is_filled_by_close, fill_date_by_close |-> fill_date_by_close,
     fill_close_by_close |-> fill_close_by_close, reclaim_level |-> reclaim_level]

\* the status returned when no effective gap is reported
NoGapStatus(lookback_days, is_expired) ==
    GapStatus(None, lookback_days, is_expired, None, None, None, None)

\* Mutant of gap_at: a later gap does not replace the one already found.
gap_at_first_wins(df, i, last) ==
    IF last # None THEN last
    ELSE IF Row(df, i).low > Row(df, i - 1).high
    THEN Some([i |-> i, gap |-> GapEvent("GAP_UP", Row(df, i).date, Row(df, i - 1).date,
                                         Row(df, i - 1).high, Row(df, i).low)])
    ELSE IF Row(df, i).high < Row(df, i - 1).low
    THEN Some([i |-> i, gap |-> GapEvent("GAP_DOWN", Row(df, i).date, Row(df, i - 1).date,
                                         Row(df, i).high, Row(df, i - 1).low)])
    ELSE last

\* one iteration of the gap scan: the strict gap at row i, if any, replaces last
gap_at(df, i, last) ==
    IF Row(df, i).low > Row(df, i - 1).high
    THEN Some([i |-> i, gap |-> GapEvent("GAP_UP", Row(df, i).date, Row(df, i - 1).date,
                                         Row(df, i - 1).high, Row(df, i).low)])
    ELSE IF Row(df, i).high < Row(df, i - 1).low
    THEN Some([i |-> i, gap |-> GapEvent("GAP_DOWN", Row(df, i).date, Row(df, i - 1).date,
                                         Row(df, i).high, Row(df, i - 1).low)])
    ELSE last

\* for i in range(i, len(df))
RECURSIVE scan_gaps(_, _, _)
scan_gaps(df, i, last) ==
    IF i >= Len(df) THEN last ELSE scan_gaps(df, i + 1, gap_at(df, i, last))

\* Mutant of fill_hit: the close must cross the edge strictly.
fill_hit_strict(kind, c, fill_level) ==
    IF kind = "GAP_UP" THEN c < fill_level ELSE c > fill_level

\* the close-based fill test of one row
fill_hit(kind, c, fill_level) ==
    IF kind = "GAP_UP" THEN c <= fill_level ELSE c >= fill_level

\* for j in range(j, len(df)): the first row whose close fills the gap
RECURSIVE first_fill(_, _, _, _)
first_fill(df, j, kind, fill_level) ==
    IF j >= Len(df) THEN None
    ELSE IF fill_hit(kind, Row(df, j).close, fill_level) THEN Some(j)
    ELSE first_fill(df, j + 1, kind, fill_level)

\* Mutant of gap_expired: a gap never expires.
gap_expired_never(latest_date, gap_date, lookback_days) == FALSE

\* (latest_date - gap_date).days > int(lookback_days)
gap_expired(latest_date, gap_date, lookback_days) == latest_date - gap_date > lookback_days

detect_last_gap_rows(hist, lookback_days) ==
    IF Len(hist.rows) = 0 \/ ~hist.required_columns
    THEN NoGapStatus(lookback_days, None)
    ELSE
    LET df == TailRows(hist.rows, Max2(lookback_days + 2, 10))
    IN
    IF Len(df) < 2 THEN NoGapStatus(lookback_days, None)
    ELSE
    LET found == scan_gaps(df, Max2(1, Len(df) - lookback_days), None)
    IN
    IF found = None THEN NoGapStatus(lookback_days, None)
    ELSE
    LET last_gap == Val(found).gap
        last_i == Val(found).i
        is_expired == gap_expired(Row(df, Len(df) - 1).date, Row(df, last_i).date,
                                  lookback_days)
        fill_level == IF last_gap.kind = "GAP_UP" THEN last_gap.lower ELSE last_gap.upper
        fill == first_fill(df, last_i + 1, last_gap.kind, fill_level)
    IN
    IF is_expired THEN NoGapStatus(lookback_days, Some(TRUE))
    ELSE GapStatus(Some(last_gap), lookback_days, Some(FALSE), Some(fill # None),
                   IF fill = None THEN None ELSE Some(Row(df, Val(fill)).date),
                   IF fill = None THEN None ELSE Some(Row(df, Val(fill)).close),
                   IF last_gap.kind = "GAP_UP" THEN Some(last_gap.upper) ELSE None)

ReclaimSignal(is_reclaim, reclaim_date, days_since_fill, reclaim_level) ==
    [is_reclaim |-> is_reclaim, reclaim_date |-> reclaim_date,
     days_since_fill |-> days_since_fill, reclaim_level |-> reclaim_level]

\* the first position of the index whose date is the fill date
RECURSIVE fill_position(_, _, _)
fill_position(rows, i, fill_date) ==
    IF i >= Len(rows) THEN None
    ELSE IF Row(rows, i).date = fill_date THEN Some(i)
    ELSE fill_position(rows, i + 1, fill_date)

\* Mutant of reclaim_window: one more row is examined.
reclaim_window_plus_one == 3 + 1

\* rows examined after the fill row
reclaim_window == 3

\* for d in range(d, 4): the first row after the fill closing at or above the level
RECURSIVE first_reclaim(_, _, _, _)
first_reclaim(rows, fill_pos, d, reclaim_level) ==
    IF d > reclaim_window \/ fill_pos + d >= Len(rows) THEN None
    ELSE IF Row(rows, fill_pos + d).close >= reclaim_level THEN Some(d)
    ELSE first_reclaim(rows, fill_pos, d + 1, reclaim_level)

gap_reclaim_within_3_days(gap, hist) ==
    IF gap.last_gap = None \/ gap.is_filled_by_close = None
    THEN ReclaimSignal(None, None, None, None)
    ELSE IF Len(hist.rows) = 0 \/ ~hist.required_columns
    THEN ReclaimSignal(None, None, None, None)
    ELSE IF gap.is_filled_by_close # Some(TRUE)
    THEN ReclaimSignal(Some(FALSE), None, None, None)
    ELSE IF gap.fill_date_by_close = None
    THEN ReclaimSignal(None, None, None, None)
    ELSE IF Val(gap.last_gap).kind # "GAP_UP"
    THEN ReclaimSignal(Some(FALSE), None, None, None)
    ELSE
    LET reclaim_level == Val(gap.last_gap).upper
        fill_pos == fill_position(hist.rows, 0, Val(gap.fill_date_by_close))
    IN
    IF fill_pos = None THEN ReclaimSignal(None, None, None, Some(reclaim_level))
    ELSE
    LET d == first_reclaim(hist.rows, Val(fill_pos), 1, reclaim_level)
    IN
    IF d # None
    THEN ReclaimSignal(Some(TRUE), Some(Row(hist.rows, Val(fill_pos) + Val(d)).date), d,
                       Some(reclaim_level))
    ELSE ReclaimSignal(Some(FALSE), None, None, Some(reclaim_level))

IslandReversal(start_gap_up, end_gap_down) ==
    [start_gap_up |-> start_gap_up, end_gap_down |-> end_gap_down]

\* Mutant of island_pair: the first pair found is kept.
island_pair_first_wins(df, i, j, latest) ==
    IF latest # None THEN latest
    ELSE IF ~(Row(df, j).high < Row(df, j - 1).low) THEN latest
    ELSE IF Row(df, j - 1).low >= Row(df, i - 1).high
    THEN Some(IslandReversal(
             GapEvent("GAP_UP", Row(df, i).date, Row(df, i - 1).date,
                      Row(df, i - 1).high, Row(df, i).low),
             GapEvent("GAP_DOWN", Row(df, j).date, Row(df, j - 1).date,
                      Row(df, j).high, Row(df, j - 1).low)))
    ELSE latest

\* body of the inner loop, for a GAP_UP at row i: a GAP_DOWN at row j whose
\* upper edge is at or above the up-gap's lower edge replaces latest
island_pair(df, i, j, latest) ==
    IF ~(Row(df, j).high < Row(df, j - 1).low) THEN latest
    ELSE IF Row(df, j - 1).low >= Row(df, i - 1).high
    THEN Some(IslandReversal(
             GapEvent("GAP_UP", Row(df, i).date, Row(df, i - 1).date,
                      Row(df, i - 1).high, Row(df, i).low),
             GapEvent("GAP_DOWN", Row(df, j).date, Row(df, j - 1).date,
                      Row(df, j).high, Row(df, j - 1).low)))
    ELSE latest

\* for j in range(j, end_j + 1)
RECURSIVE island_inner(_, _, _, _, _)
island_inner(df, i, j, end_j, latest) ==
    IF j > end_j THEN latest
    ELSE island_inner(df, i, j + 1, end_j, island_pair(df, i, j, latest))

\* for i in range(i, len(df) - 1)
RECURSIVE island_outer(_, _, _, _, _)
island_outer(df, i, min_separation_days, max_separation_days, latest) ==
    IF i >= Len(df) - 1 THEN latest
    ELSE IF ~(Row(df, i).low > Row(df, i - 1).high)
    THEN island_outer(df, i + 1, min_separation_days, max_separation_days, latest)
    ELSE IF i + min_separation_days >= Len(df)
    THEN island_outer(df, i + 1, min_separation_days, max_separation_days, latest)
    ELSE island_outer(df, i + 1, min_separation_days, max_separation_days,
                      island_inner(df, i, i + min_separation_days,
                                   Min2(Len(df) - 1, i + max_separation_days), latest))

detect_island_reversal_rows(hist, min_separation_days, max_separation_days, lookback_days) ==
    IF Len(hist.rows) = 0 \/ ~hist.required_columns THEN None
    ELSE
    LET df == TailRows(hist.rows, Max2(lookback_days + 2, 20))
    IN IF Len(df) < 3 THEN None
       ELSE island_outer(df, 1, min_separation_days, max_separation_days, None)

MassiveVolumeLevel(is_massive, low, high, date, vol_today, vol_max_lookback, lookback_days, low_broken, high_broken) ==
    [is_massive |-> is_massive, low |-> low, high |-> high, date |-> date,
     vol_today |-> vol_today, vol_max_lookback |-> vol_max_lookback,
     lookback_days |-> lookback_days, low_broken |-> low_broken, high_broken |-> high_broken]

\* df["Volume"].rolling(window=n, min_periods=n).max() at row i >= n - 1
RECURSIVE rolling_max(_, _, _)
rolling_max(df, i, n) ==
    IF n = 1 THEN Row(df, i).volume
    ELSE Max2(Row(df, i).volume, rolling_max(df, i - 1, n - 1))

\* for i in range(i, len(df)): the latest row whose volume is its window's maximum
RECURSIVE latest_hit(_, _, _, _)
latest_hit(df, i, n, hit) ==
    IF i >= Len(df) THEN hit
    ELSE latest_hit(df, i + 1, n,
                    IF Row(df, i).volume = rolling_max(df, i, n) THEN Some(i) ELSE hit)

massive_volume_levels_rows(hist, lookback_days) ==
    IF Len(hist.rows) = 0 \/ ~hist.required_columns
    THEN MassiveVolumeLevel(None, None, None, None, None, None, lookback_days, None, None)
    ELSE
    LET df == hist.rows
        n == lookback_days
        last == Row(df, Len(df) - 1)
    IN
    IF Len(df) < n
    THEN MassiveVolumeLevel(None, None, None, None, Some(last.volume), None, n, None, None)
    ELSE
    LET hit == latest_hit(df, n - 1, n, None)
    IN
    IF hit = None
    THEN MassiveVolumeLevel(Some(FALSE), None, None, Some(last.date), Some(last.volume),
                            Some(rolling_max(df, Len(df) - 1, n)), n, Some(FALSE), Some(FALSE))
    ELSE
    LET day == Row(df, Val(hit))
    IN MassiveVolumeLevel(Some(TRUE), Some(day.low), Some(day.high), Some(day.date),
                          Some(day.volume), Some(rolling_max(df, Val(hit), n)), n,
                          Some(last.close < day.low), Some(last.close > day.high))

---------------------------------------------------------------------------
(* Specification of the pattern detectors as pure operations on a history  *)

\* price bars: three disjoint levels and two wide bars spanning the lower two
BarLow == [open |-> 1, high |-> 2, low |-> 1, close |-> 2, volume |-> 1]

BarMid == [open |-> 3, high |-> 4, low |-> 3, close |-> 4, volume |-> 1]

BarHigh == [open |-> 5, high |-> 6, low |-> 5, close |-> 6, volume |-> 1]

BarWideDown == [open |-> 4, high |-> 4, low |-> 1, close |-> 2, volume |-> 1]

BarWideUp == [open |-> 1, high |-> 4, low |-> 1, close |-> 3, volume |-> 1]

PriceBars == {BarLow, BarMid, BarHigh, BarWideDown, BarWideUp}

\* bars for the volume scan: two price levels, three volumes
VolumeBars == { [b EXCEPT !.volume = v] : b \in {BarLow, BarMid}, v \in 1..3 }

MaxRows == 4

PadRows == 18

\* all sequences over bars of length 0..k
SeriesOver(bars, k) == UNION { [1..m -> bars] : m \in 0..k }

\* k quiet days before the series (copies of its first bar)
PadBefore(sq, k) == IF Len(sq) = 0 THEN sq ELSE [i \in 1..k |-> sq[1]] \o sq

\* k quiet days after the series (copies of its last bar)
PadAfter(sq, k) == IF Len(sq) = 0 THEN sq ELSE sq \o [i \in 1..k |-> sq[Len(sq)]]

\* a history whose row i is dated i * step
History(sq, step, required_columns) ==
    [required_columns |-> required_columns,
     rows |-> [i \in 1..Len(sq) |->
                  [date |-> (i - 1) * step, open |-> sq[i].open, high |-> sq[i].high,
                   low |-> sq[i].low, close |-> sq[i].close, volume |-> sq[i].volume]]]

\* a gap up filled by close on the next row, then up to MaxRows further rows
ReclaimSeries ==
    { <<BarLow, BarMid, BarWideDown>> \o sq : sq \in SeriesOver({BarWideDown, BarMid}, MaxRows) }

\* the histories given to the gap and island detectors: short series on
\* consecutive or spaced dates, and series lengthened by quiet days
PaddedSeries(sq) == {PadBefore(sq, PadRows), PadAfter(sq, PadRows)}

GapCall(hist, lookback_days) ==
    [fn |-> "detect_last_gap", hist |-> hist, lookback_days |-> lookback_days]

ReclaimCall(hist, lookback_days) ==
    [fn |-> "gap_reclaim_within_3_days", hist |-> hist, lookback_days |-> lookback_days]

IslandCall(hist, min_separation_days, max_separation_days, lookback_days) ==
    [fn |-> "detect_island_reversal", hist |-> hist,
     min_separation_days |-> min_separation_days,
     max_separation_days |-> max_separation_days, lookback_days |-> lookback_days]

MassiveVolumeCall(hist, lookback_days) ==
    [fn |-> "massive_volume_levels", hist |-> hist, lookback_days |-> lookback_days]

\* the functions laowang.py defines
laowang_names ==
    { "_to_date_str", "_required_columns", "detect_last_gap", "detect_island_reversal",
      "gap_reclaim_within_3_days", "midpoint_defense", "bearish_omens",
      "massive_volume_levels", "volume_spike_defense_price" }

\* gap down at row 1, gap up at row 4 back into the zone of the gap down
BullishIslandSeries == <<BarHigh, BarLow, BarLow, BarLow, BarMid>>

BullishIslandCall(hist, min_separation_days, max_separation_days, lookback_days) ==
    [fn |-> "detect_island_reversal_bullish", hist |-> hist,
     min_separation_days |-> min_separation_days,
     max_separation_days |-> max_separation_days, lookback_days |-> lookback_days]

InitDetect ==
    /\ \/ \E sq \in SeriesOver(PriceBars, MaxRows) :
            \/ \E step \in {1, 3}, lb \in {2, 30} :
                 args = GapCall(History(sq, step, TRUE), lb)
            \/ args = GapCall(History(sq, 4, TRUE), 3)
            \/ \E pq \in PaddedSeries(sq) :
                 \/ args = GapCall(History(pq, 1, TRUE), 2)
                 \/ args = IslandCall(History(pq, 1, TRUE), 2, 10, 2)
            \/ args = ReclaimCall(History(sq, 1, TRUE), 30)
            \/ \E sep \in { <<2, 10>>, <<1, 2>>, <<1, 1>> } :
                 args = IslandCall(History(sq, 1, TRUE), sep[1], sep[2], 2)
       \/ \E sq \in ReclaimSeries :
            args = ReclaimCall(History(sq, 1, TRUE), 30)
       \/ \E sq \in { <<BarLow, BarMid>>, <<BarMid, BarLow, BarWideUp>> } :
            \/ args = GapCall(History(sq, 1, FALSE), 30)
            \/ args = IslandCall(History(sq, 1, FALSE), 1, 2, 2)
            \/ args = ReclaimCall(History(sq, 1, FALSE), 30)
       \/ \E sq \in SeriesOver(VolumeBars, MaxRows), lb \in {2, 3} :
            args = MassiveVolumeCall(History(sq, 1, TRUE), lb)
       \/ args = BullishIslandCall(History(BullishIslandSeries, 1, TRUE), 2, 10, 30)
    /\ ret = None
    /\ pc = "call"
    /\ world = None /\ snap = None /\ bench = None /\ fetched = << >>
    /\ report = None /\ bd = None /\ written = FALSE

CallDetectLastGap ==
    /\ pc = "call"
    /\ args.fn = "detect_last_gap"
    /\ ret' = Some(detect_last_gap_rows(args.hist, args.lookback_days))
    /\ pc' = "ret"
    /\ UNCHANGED <<world, snap, bench, fetched, report, bd, written, args>>

\* cli.py 131-146: the gap status of the history, then its reclaim signal
CallGapReclaim ==
    /\ pc = "call"
    /\ args.fn = "gap_reclaim_within_3_days"
    /\ LET gap == detect_last_gap_rows(args.hist, args.lookback_days)
       IN ret' = Some([gap |-> gap, reclaim |-> gap_reclaim_within_3_days(gap, args.hist)])
    /\ pc' = "ret"
    /\ UNCHANGED <<world, snap, bench, fetched, report, bd, written, args>>

CallDetectIslandReversal ==
    /\ pc = "call"
    /\ args.fn = "detect_island_reversal"
    /\ ret' = Some(detect_island_reversal_rows(args.hist, args.min_separation_days,
                                               args.max_separation_days, args.lookback_days))
    /\ pc' = "ret"
    /\ UNCHANGED <<world, snap, bench, fetched, report, bd, written, args>>

CallMassiveVolumeLevels ==
    /\ pc = "call"
    /\ args.fn = "massive_volume_levels"
    /\ ret' = Some(massive_volume_levels_rows(args.hist, args.lookback_days))
    /\ pc' = "ret"
    /\ UNCHANGED <<world, snap, bench, fetched, report, bd, written, args>>

\* from etf_dashboard.laowang import <name>: a name the module does not define
\* raises ImportError and nothing is returned
ImportUndefinedName ==
    /\ pc = "call"
    /\ args.fn \notin laowang_names
    /\ ret' = Some([raised |-> "ImportError", name |-> args.fn])
    /\ pc' = "raised"
    /\ UNCHANGED <<world, snap, bench, fetched, report, bd, written, args>>

NextDetect ==
    \/ CallDetectLastGap
    \/ CallGapReclaim
    \/ CallDetectIslandReversal
    \/ CallMassiveVolumeLevels
    \/ ImportUndefinedName

SpecDetect == InitDetect /\ [][NextDetect]_vars

---------------------------------------------------------------------------
(* Claims about the pattern detectors (checked under SpecDetect)           *)

Returned(fn) == pc = "ret" /\ args.fn = fn

IsGapUp(rows, t) == Row(rows, t).low > Row(rows, t - 1).high

IsGapDown(rows, t) == Row(rows, t).high < Row(rows, t - 1).low

SetMax(S) == CHOOSE x \in S : \A y \in S : y <= x

SetMin(S) == CHOOSE x \in S : \A y \in S : x <= y

\* the row of the history that carries a date
RowOfDate(rows, d) == CHOOSE i \in 0..(Len(rows) - 1) : Row(rows, i).date = d

\* rows max(1, N - lookback) .. N-1 that open a strict gap
QualifyingRows(rows, lookback_days) ==
    { t \in Max2(1, Len(rows) - lookback_days)..(Len(rows) - 1) :
        IsGapUp(rows, t) \/ IsGapDown(rows, t) }

\* the gap event of a qualifying row, with its zone
GapOfRow(rows, t) ==
    IF IsGapUp(rows, t)
    THEN GapEvent("GAP_UP", Row(rows, t).date, Row(rows, t - 1).date,
                  Row(rows, t - 1).high, Row(rows, t).low)
    ELSE GapEvent("GAP_DOWN", Row(rows, t).date, Row(rows, t - 1).date,
                  Row(rows, t).high, Row(rows, t - 1).low)

\* C11: detect_last_gap is last-match-wins: over the scanned rows
\* max(1, N - lookback) .. N-1, with GAP_UP iff low(t) > high(t-1) and GAP_DOWN iff
\* high(t) < low(t-1), the reported gap is the one at the greatest qualifying row
\* (when not expired), with zone [high(t-1), low(t)] resp. [high(t), low(t-1)].
C11_LastGapWins ==
    (Returned("detect_last_gap") /\ args.hist.required_columns)
    => LET rows == args.hist.rows
           q == QualifyingRows(rows, args.lookback_days)
           g == SetMax(q)
       IN IF q = {}
          THEN Val(ret).last_gap = None /\ Val(ret).is_expired = None
          ELSE IF Row(rows, Len(rows) - 1).date - Row(rows, g).date > args.lookback_days
          THEN Val(ret).last_gap = None /\ Val(ret).is_expired = Some(TRUE)
          ELSE Val(ret).last_gap = Some(GapOfRow(rows, g))
               /\ Val(ret).is_expired = Some(FALSE)

\* two gaps of different kinds are scanned and the later one is reported
C11_Witness ==
    /\ Returned("detect_last_gap")
    /\ LET q == QualifyingRows(args.hist.rows, args.lookback_days)
       IN /\ Cardinality(q) >= 2
          /\ Val(ret).last_gap # None
          /\ Val(ret).last_gap = Some(GapOfRow(args.hist.rows, SetMax(q)))
          /\ GapOfRow(args.hist.rows, SetMin(q)).kind # Val(Val(ret).last_gap).kind

\* rows after the gap row whose close crosses the filling edge
FillRows(rows, gap) ==
    { j \in (RowOfDate(rows, gap.date) + 1)..(Len(rows) - 1) :
        IF gap.kind = "GAP_UP" THEN Row(rows, j).close <= gap.lower
        ELSE Row(rows, j).close >= gap.upper }

\* C12: for the reported gap at row g with zone [L, U], is_filled_by_close is True
\* iff some row j > g has close <= L (GAP_UP) or close >= U (GAP_DOWN), else False;
\* when True the fill date and fill close are those of the first such row, when
\* False both are None.
C12_FilledByClose ==
    (Returned("detect_last_gap") /\ Val(ret).last_gap # None)
    => LET rows == args.hist.rows
           f == FillRows(rows, Val(Val(ret).last_gap))
       IN IF f # {}
          THEN /\ Val(ret).is_filled_by_close = Some(TRUE)
               /\ Val(ret).fill_date_by_close = Some(Row(rows, SetMin(f)).date)
               /\ Val(ret).fill_close_by_close = Some(Row(rows, SetMin(f)).close)
          ELSE /\ Val(ret).is_filled_by_close = Some(FALSE)
               /\ Val(ret).fill_date_by_close = None
               /\ Val(ret).fill_close_by_close = None

\* a gap up whose lower edge is met exactly by a later close, with a second
\* filling row after the first
C12_Witness ==
    /\ Returned("detect_last_gap")
    /\ Val(ret).last_gap # None
    /\ Val(Val(ret).last_gap).kind = "GAP_UP"
    /\ LET f == FillRows(args.hist.rows, Val(Val(ret).last_gap))
       IN /\ Cardinality(f) >= 2
          /\ Row(args.hist.rows, SetMin(f)).close = Val(Val(ret).last_gap).lower
          /\ Val(ret).fill_date_by_close = Some(Row(args.hist.rows, SetMin(f)).date)

\* the last gap is a GAP_UP that was filled by close
FilledGapUp(gap) ==
    /\ gap.last_gap # None
    /\ Val(gap.last_gap).kind = "GAP_UP"
    /\ gap.is_filled_by_close = Some(TRUE)

\* rows f+1 .. f+3 inside the series closing at or above the upper edge
ReclaimRows(rows, gap) ==
    LET f == RowOfDate(rows, Val(gap.fill_date_by_close))
    IN { j \in (f + 1)..Min2(Len(rows) - 1, f + 3) :
           Row(rows, j).close >= Val(gap.last_gap).upper }

\* C13: is_reclaim is True iff the last gap is a GAP_UP filled by close at row f and
\* some row j in f+1 .. f+3 closes at or above the gap's upper edge; the reclaim date
\* is the first such row and days_since_fill = j - f.  A close at or above the edge
\* on row f+4 or later, or at or before f, never produces a reclaim.
C13_ReclaimWithinThreeRows ==
    Returned("gap_reclaim_within_3_days")
    => LET rows == args.hist.rows
           gap == Val(ret).gap
           rec == Val(ret).reclaim
       IN IF FilledGapUp(gap) /\ ReclaimRows(rows, gap) # {}
          THEN LET j == SetMin(ReclaimRows(rows, gap))
               IN /\ rec.is_reclaim = Some(TRUE)
                  /\ rec.reclaim_date = Some(Row(rows, j).date)
                  /\ rec.days_since_fill
                         = Some(j - RowOfDate(rows, Val(gap.fill_date_by_close)))
          ELSE rec.is_reclaim # Some(TRUE) /\ rec.reclaim_date = None

\* the gap is filled at row f, rows f+1 .. f+3 stay below the upper edge, row f+4
\* closes at or above it, and no reclaim is reported
C13_Witness ==
    /\ Returned("gap_reclaim_within_3_days")
    /\ FilledGapUp(Val(ret).gap)
    /\ LET rows == args.hist.rows
           f == RowOfDate(rows, Val(Val(ret).gap.fill_date_by_close))
       IN /\ f + 4 <= Len(rows) - 1
          /\ Row(rows, f + 4).close >= Val(Val(ret).gap.last_gap).upper
          /\ ReclaimRows(rows, Val(ret).gap) = {}
          /\ Val(ret).reclaim.is_reclaim = Some(FALSE)

\* the rows the island scan examines
ExaminedRows(a) == TailRows(a.hist.rows, Max2(a.lookback_days + 2, 20))

\* pairs (i, j): GAP_UP at i, GAP_DOWN at j, i + min <= j <= min(N-1, i + max), and
\* the down-gap's upper edge low(j-1) >= the up-gap's lower edge high(i-1)
IslandPairs(df, min_sep, max_sep) ==
    { p \in (1..(Len(df) - 1)) \X (1..(Len(df) - 1)) :
        /\ p[1] + min_sep <= p[2]
        /\ p[2] <= Min2(Len(df) - 1, p[1] + max_sep)
        /\ IsGapUp(df, p[1])
        /\ IsGapDown(df, p[2])
        /\ Row(df, p[2] - 1).low >= Row(df, p[1] - 1).high }

\* the pair found last by the scan: greatest i, and for that i the greatest j
LatestPair(pairs) ==
    LET i == SetMax({ p[1] : p \in pairs })
    IN <<i, SetMax({ p[2] : p \in { q \in pairs : q[1] = i } })>>

\* C14: detect_island_reversal returns a pair (GAP_UP at i, GAP_DOWN at j) only when
\* i + min_separation_days <= j <= min(N-1, i + max_separation_days) and
\* low(j-1) >= high(i-1); it returns None iff no such pair exists in the examined
\* rows; of several qualifying pairs it returns the latest one.
C14_LatestIslandPair ==
    (Returned("detect_island_reversal") /\ args.hist.required_columns)
    => LET df == ExaminedRows(args)
           pairs == IslandPairs(df, args.min_separation_days, args.max_separation_days)
       IN IF pairs = {}
          THEN ret = Some(None)
          ELSE LET p == LatestPair(pairs)
               IN ret = Some(Some(IslandReversal(GapOfRow(df, p[1]), GapOfRow(df, p[2]))))

\* two qualifying pairs with different first gaps; the later first gap is returned
C14_Witness ==
    /\ Returned("detect_island_reversal")
    /\ LET df == ExaminedRows(args)
           pairs == IslandPairs(df, args.min_separation_days, args.max_separation_days)
       IN /\ Cardinality({ p[1] : p \in pairs }) >= 2
          /\ Val(ret) # None
          /\ Val(Val(ret)).start_gap_up = GapOfRow(df, SetMax({ p[1] : p \in pairs }))

\* C15: the detector module provides detect_island_reversal_bullish, the mirror of
\* detect_island_reversal (a GAP_DOWN followed by a GAP_UP back into its zone), and
\* on such a history it returns a reversal whose end_gap_down is a GAP_DOWN and whose
\* start_gap_up is a GAP_UP.
C15_BullishIslandProvided ==
    (args.fn = "detect_island_reversal_bullish" /\ pc # "call")
    => /\ pc = "ret"
       /\ Val(ret) # None
       /\ Val(Val(ret)).end_gap_down.kind = "GAP_DOWN"
       /\ Val(Val(ret)).start_gap_up.kind = "GAP_UP"

\* the mirror pattern is present in the history and the call has been made
C15_Witness ==
    /\ args.fn = "detect_island_reversal_bullish"
    /\ pc # "call"
    /\ IsGapDown(args.hist.rows, 1)
    /\ IsGapUp(args.hist.rows, 4)
    /\ Row(args.hist.rows, 4).low <= Row(args.hist.rows, 0).low

\* the last lookback_days rows of the history
LastRows(rows, lookback_days) == (Len(rows) - lookback_days)..(Len(rows) - 1)

\* the most recent of the last lookback_days rows carrying their greatest volume
PeakRow(rows, lookback_days) ==
    LET w == LastRows(rows, lookback_days)
        vmax == SetMax({ Row(rows, i).volume : i \in w })
    IN SetMax({ i \in w : Row(rows, i).volume = vmax })

\* C16: with at least lookback_days rows, the day massive_volume_levels reports lies
\* within the last lookback_days rows and its volume equals the maximum volume over
\* those rows (the most recent such row on ties); the reported low and high are that
\* day's, low_broken iff the latest close < that low and high_broken iff the latest
\* close > that high.
C16_MassiveDayInLookback ==
    (/\ Returned("massive_volume_levels")
     /\ args.hist.required_columns
     /\ Len(args.hist.rows) >= args.lookback_days)
    => LET rows == args.hist.rows
           day == Row(rows, PeakRow(rows, args.lookback_days))
           last == Row(rows, Len(rows) - 1)
       IN /\ Val(ret).date = Some(day.date)
          /\ Val(ret).vol_today = Some(day.volume)
          /\ Val(ret).low = Some(day.low)
          /\ Val(ret).high = Some(day.high)
          /\ Val(ret).low_broken = Some(last.close < day.low)
          /\ Val(ret).high_broken = Some(last.close > day.high)

\* a massive day is reported that precedes the last lookback_days rows
C16_Witness ==
    /\ Returned("massive_volume_levels")
    /\ Len(args.hist.rows) >= args.lookback_days
    /\ Val(ret).is_massive = Some(TRUE)
    /\ Val(Val(ret).date) < Row(args.hist.rows, Len(args.hist.rows) - args.lookback_days).date

\* no day is reported although the history has lookback_days rows
C16_NoDayReported ==
    /\ Returned("massive_volume_levels")
    /\ Len(args.hist.rows) >= args.lookback_days
    /\ Val(ret).is_massive = Some(FALSE)
    /\ Val(ret).low = None

---------------------------------------------------------------------------
(* Claims about build_report's failure handling (checked under Spec)       *)

\* C17: for every detector and for the flags build_report derives from it, a history
\* too short for the detector gives a 'not determined' value, different from the
\* value for a history in which the pattern is definitely absent, and that value is
\* not turned into a definite False before it reaches the win-rate engine and the
\* evidence gate: the report's flag is undefined.
C17_NotDeterminedIsKept ==
    ReportDone =>
        /\ world.n < 3 => Val(report).island_reversal = None
        /\ world.n < 2 =>
               /\ Val(report).gap_filled_by_close = None
               /\ Val(report).bearish_long_black_engulf = None
               /\ Val(report).bearish_distribution_day = None
        /\ world.n < world.vol_spike_window => Val(report).vol_spike_defense_broken = None

\* a one-row history, on which no island scan is possible, reported as 'no island'
\* and counted as present evidence by the checklist
C17_Witness ==
    /\ ReportDone
    /\ world.n < 3
    /\ Val(report).island_reversal = Some(FALSE)
    /\ Checklist(Val(report))[26] = Some(FALSE)

\* a configuration the contract calls malformed
ConfigMalformed(w) ==
    \/ RLE(w.stop_loss_pct, Rat(0, 1)) \/ RLE(Rat(1, 2), w.stop_loss_pct)
    \/ RLE(w.trailing_stop_pct, Rat(0, 1)) \/ RLE(Rat(1, 2), w.trailing_stop_pct)
    \/ RLT(w.min_rr, Rat(0, 1))
    \/ RLE(w.max_position_pct, Rat(0, 1)) \/ RLT(Rat(1, 1), w.max_position_pct)

NothingComputedOrWritten == report = None /\ bd = None /\ ~written

\* C18: when stop_loss_pct or trailing_stop_pct is outside (0, 0.5), min_rr is
\* negative, or max_position_pct is outside (0, 1], build_report raises ValueError
\* before any fetch is issued, before any computation runs and without writing a
\* report.
C18_MalformedConfigRejectedFirst ==
    ConfigMalformed(world)
    => /\ pc \in {"validate", "raised"}
       /\ pc = "raised" => ret = Some([raised |-> "ValueError"])
       /\ fetched = << >> /\ snap = None /\ bench = None
       /\ NothingComputedOrWritten

\* a stop-loss percentage of exactly 0.5, otherwise valid, has been rejected
C18_Witness ==
    /\ world.stop_loss_pct = Rat(1, 2)
    /\ RLT(Rat(0, 1), world.trailing_stop_pct) /\ RLE(Rat(0, 1), world.min_rr)
    /\ RLT(Rat(0, 1), world.max_position_pct)
    /\ pc = "raised"
    /\ ret = Some([raised |-> "ValueError"])
    /\ fetched = << >>

\* a fetch of this ticker has been issued and has failed
FetchFailed(outcome, who) ==
    outcome # "ok" /\ \E i \in 1..Len(fetched) : fetched[i] = who

\* C19: if fetching the history of the ticker or of the benchmark fails (error or
\* empty history), build_report propagates the failure: each ticker is fetched at
\* most once, the failure is not masked, nothing is computed on partial data and no
\* report is written; the rule engine runs only after both fetches have completed.
C19_FetchFailurePropagates ==
    /\ \A i, j \in 1..Len(fetched) : fetched[i] = fetched[j] => i = j
    /\ FetchFailed(world.s_fetch, "ticker")
       => /\ pc = "raised" /\ ret = Some(fetch_exception(world.s_fetch))
          /\ fetched = <<"ticker">>
          /\ NothingComputedOrWritten
    /\ (world.s_fetch = "ok" /\ FetchFailed(world.b_fetch, "benchmark"))
       => /\ pc = "raised" /\ ret = Some(fetch_exception(world.b_fetch))
          /\ NothingComputedOrWritten
    /\ (report # None \/ bd # None \/ written)
       => /\ fetched = <<"ticker", "benchmark">>
          /\ snap # None /\ bench # None

\* the ticker was fetched, then the benchmark came back empty: the call has raised
\* with the ticker's snapshot in hand and nothing computed
C19_Witness ==
    /\ world.s_fetch = "ok" /\ world.b_fetch = "empty"
    /\ fetched = <<"ticker", "benchmark">>
    /\ snap # None /\ bench = None
    /\ pc = "raised"
    /\ NothingComputedOrWritten

\* a valid configuration and a data source that answers both fetches
ValidRequest == ~ConfigMalformed(world) /\ world.s_fetch = "ok" /\ world.b_fetch = "ok"

\* the report is written, with the insufficient-data verdict if evidence is missing
ReportWrittenWithVerdict ==
    /\ ReportDone
    /\ ~ChecklistComplete(Val(report)) => Val(report).final_rating = "INSUFFICIENT_DATA"

---------------------------------------------------------------------------
(* Claims about the figures of the report (checked under Spec)             *)

\* C21: in every report, the trailing-stop level equals the report's 52-week high
\* p_high x (1 - trailing_stop_pct) and trailing_stop_hit is True iff the current
\* price is below that level; the high of the trailing 252 rows is used only when the
\* data source supplies no 52-week-high figure.
C21_TrailingStopFromReportedHigh ==
    (ReportDone /\ Val(report).p_high # None /\ Val(report).p_now # None)
    => LET r == Val(report)
           level == RMul(Rat(Val(r.p_high), 1), RSub(Rat(1, 1), world.trailing_stop_pct))
       IN /\ r.trailing_stop = Some(level)
          /\ r.trailing_stop_hit = Some(RLT(Rat(Val(r.p_now), 1), level))

\* the data source supplies a 52-week high that differs from the high of the rows,
\* and the trailing stop of the report is the one of the rows' high
C21_Witness ==
    /\ ReportDone
    /\ world.info_high # None
    /\ Val(world.info_high) # world.high252
    /\ Val(report).p_high = world.info_high
    /\ Val(report).trailing_stop
           = Some(RMul(Rat(world.high252, 1), RSub(Rat(1, 1), world.trailing_stop_pct)))

\* C22: the record build_report hands to the report formatter carries the full
\* win-rate breakdown of its W: the base, the bonus total, the penalty total and one
\* entry per rule, equal to what choose_win_rate_breakdown computes for the same
\* inputs; whenever W is defined the base is defined and the component list is not
\* empty.
C22_ReportCarriesBreakdown ==
    ReportDone
    => LET r == Val(report)
           b == Val(bd)
       IN /\ r.kelly_w = b.w_clamped
          /\ r.kelly_w_base = b.base
          /\ r.kelly_w_components = b.components
          /\ r.kelly_w # None
             => /\ r.kelly_w_base # None
                /\ r.kelly_w_bonus = Some(b.bonus_total)
                /\ r.kelly_w_penalty = Some(b.penalty_total)
                /\ r.kelly_w_components # << >>

\* a report whose W is defined from a base and at least one applied rule, and whose
\* breakdown fields are empty
C22_Witness ==
    /\ ReportDone
    /\ Val(report).kelly_w # None
    /\ Val(report).kelly_w = Val(bd).w_clamped
    /\ Val(bd).base # None
    /\ \E i \in 1..Len(Val(bd).components) : Val(bd).components[i].status = "APPLIED"
    /\ Val(report).kelly_w_base = None
    /\ Val(report).kelly_w_components = << >>

---------------------------------------------------------------------------
(* indicators.py.  A pandas Series is a sequence of Optional rationals, NaN *)
(* being None; positions are counted from 1.                               *)

\* whether x[lo..hi] holds a NaN
HasNaN(x, lo, hi) == \E k \in lo..hi : x[k] = None

RECURSIVE window_sum(_, _, _)
window_sum(x, lo, hi) ==
    IF lo > hi THEN Rat(0, 1) ELSE RAdd(Val(x[hi]), window_sum(x, lo, hi - 1))

\* Mutant of rolling_mean: min_periods = 1, the mean of the rows seen so far.
rolling_mean_min_periods_one(x, t, window) ==
    LET lo == IF t < window THEN 1 ELSE t - window + 1
    IN IF HasNaN(x, lo, t) THEN None
       ELSE Some(RDiv(window_sum(x, lo, t), Rat(t - lo + 1, 1)))

\* Series.rolling(window=window, min_periods=window).mean() at position t
rolling_mean(x, t, window) ==
    IF t < window \/ HasNaN(x, t - window + 1, t) THEN None
    ELSE Some(RDiv(window_sum(x, t - window + 1, t), Rat(window, 1)))

sma(close, window) == [t \in 1..Len(close) |-> rolling_mean(close, t, window)]

\* Series.diff()
diff(x) ==
    [t \in 1..Len(x) |-> IF t = 1 \/ x[t] = None \/ x[t - 1] = None THEN None
                         ELSE Some(RSub(Val(x[t]), Val(x[t - 1])))]

\* Series.clip(lower=0)
clip_lower_0(x) ==
    [t \in 1..Len(x) |-> IF x[t] = None THEN None ELSE Some(RMax(Val(x[t]), Rat(0, 1)))]

\* -Series
negated(x) ==
    [t \in 1..Len(x) |-> IF x[t] = None THEN None ELSE Some(RSub(Rat(0, 1), Val(x[t])))]

\* the running state of ewm(alpha=alpha, adjust=False, ignore_na=False) after
\* position t: the weighted mean, the number of observations, the weight of the mean
RECURSIVE ewm_state(_, _, _)
ewm_state(x, t, alpha) ==
    IF t = 1
    THEN [weighted |-> x[1], nobs |-> IF x[1] = None THEN 0 ELSE 1, old_wt |-> Rat(1, 1)]
    ELSE
    LET prev == ewm_state(x, t - 1, alpha)
        nobs == prev.nobs + (IF x[t] = None THEN 0 ELSE 1)
        old_wt == RMul(prev.old_wt, RSub(Rat(1, 1), alpha))
    IN
    IF prev.weighted = None
    THEN [weighted |-> x[t], nobs |-> nobs, old_wt |-> prev.old_wt]
    ELSE IF x[t] = None
    THEN [weighted |-> prev.weighted, nobs |-> nobs, old_wt |-> old_wt]
    ELSE [weighted |-> Some(RDiv(RAdd(RMul(old_wt, Val(prev.weighted)),
                                      RMul(alpha, Val(x[t]))),
                                 RAdd(old_wt, alpha))),
          nobs |-> nobs, old_wt |-> Rat(1, 1)]

\* Series.ewm(alpha=alpha, adjust=False, min_periods=min_periods).mean()
ewm_mean(x, alpha, min_periods) ==
    [t \in 1..Len(x) |-> LET st == ewm_state(x, t, alpha)
                         IN IF st.nobs >= min_periods THEN st.weighted ELSE None]

ema(series, span) == ewm_mean(series, Rat(2, span + 1), span)

\* avg_loss.replace(0, np.nan)
replace_0_nan(x) ==
    [t \in 1..Len(x) |-> IF x[t] # None /\ Val(x[t]).num = 0 THEN None ELSE x[t]]

\* Wilder RSI: 100 - 100 / (1 + avg_gain / avg_loss)
rsi(close, period) ==
    LET delta == diff(close)
        avg_gain == ewm_mean(clip_lower_0(delta), Rat(1, period), period)
        avg_loss == replace_0_nan(ewm_mean(clip_lower_0(negated(delta)), Rat(1, period),
                                           period))
    IN [t \in 1..Len(close) |->
           IF avg_gain[t] = None \/ avg_loss[t] = None THEN None
           ELSE LET rs == RDiv(Val(avg_gain[t]), Val(avg_loss[t]))
                IN Some(RSub(Rat(100, 1), RDiv(Rat(100, 1), RAdd(Rat(1, 1), rs))))]

\* series.dropna().iloc[-1], or None
latest_value(series) ==
    LET defined == { t \in 1..Len(series) : series[t] # None }
    IN IF defined = {} THEN None
       ELSE series[CHOOSE t \in defined : \A u \in defined : u <= t]

---------------------------------------------------------------------------
(* Specification of the indicators as pure operations on a series          *)

MaxSeriesLen == 5

MaxWindow == 3

\* closes of a price series
PriceLevels == { Some(Rat(n, 1)) : n \in 1..3 }

\* values of an indicator series
IndicatorValues == { None, Some(Rat(1, 1)), Some(Rat(5, 2)) }

SeriesOf(values) == UNION { [1..k -> values] : k \in 0..MaxSeriesLen }

InitIndicators ==
    /\ \/ \E close \in SeriesOf(PriceLevels), window \in 1..MaxWindow,
              fn \in {"sma", "ema", "rsi"} :
            args = [fn |-> fn, series |-> close, window |-> window]
       \/ \E series \in SeriesOf(IndicatorValues) :
            args = [fn |-> "latest_value", series |-> series, window |-> 0]
    /\ ret = None
    /\ pc = "call"
    /\ world = None /\ snap = None /\ bench = None /\ fetched = << >>
    /\ report = None /\ bd = None /\ written = FALSE

CallSma ==
    /\ pc = "call"
    /\ args.fn = "sma"
    /\ ret' = Some(sma(args.series, args.window))
    /\ pc' = "ret"
    /\ UNCHANGED <<world, snap, bench, fetched, report, bd, written, args>>

CallEma ==
    /\ pc = "call"
    /\ args.fn = "ema"
    /\ ret' = Some(ema(args.series, args.window))
    /\ pc' = "ret"
    /\ UNCHANGED <<world, snap, bench, fetched, report, bd, written, args>>

CallRsi ==
    /\ pc = "call"
    /\ args.fn = "rsi"
    /\ ret' = Some(rsi(args.series, args.window))
    /\ pc' = "ret"
    /\ UNCHANGED <<world, snap, bench, fetched, report, bd, written, args>>

CallLatestValue ==
    /\ pc = "call"
    /\ args.fn = "latest_value"
    /\ ret' = Some(latest_value(args.series))
    /\ pc' = "ret"
    /\ UNCHANGED <<world, snap, bench, fetched, report, bd, written, args>>

NextIndicators == CallSma \/ CallEma \/ CallRsi \/ CallLatestValue

SpecIndicators == InitIndicators /\ [][NextIndicators]_vars

---------------------------------------------------------------------------
(* Claims about the indicators (checked under SpecIndicators)              *)

\* no close up to position t is below the close before it
NoFallUpTo(close, t) == \A k \in 2..t : ~RLT(Val(close[k]), Val(close[k - 1]))

\* the smoothed loss at position t is 0: no close has fallen so far; with a window of
\* 1 the smoothing keeps no history and only the latest change counts
AverageLossIsZero(close, t, window) ==
    IF window = 1 THEN t >= 2 /\ ~RLT(Val(close[t]), Val(close[t - 1]))
    ELSE NoFallUpTo(close, t)

\* the series is undefined at exactly its first k positions
UndefinedExactlyFirst(out, k) == \A t \in 1..Len(out) : (out[t] = None) <=> (t <= k)

\* rsi, with a warm-up of k positions: undefined there and where the average loss is
\* 0, defined elsewhere, and within [0, 100]
RsiAsClaimed(close, out, window, k) ==
    \A t \in 1..Len(out) :
        /\ (out[t] = None) <=> (t <= k \/ AverageLossIsZero(close, t, window))
        /\ out[t] # None => RLE(Rat(0, 1), Val(out[t])) /\ RLE(Val(out[t]), Rat(100, 1))

\* latest_value: the most recent defined value, or None if there is none
LatestAsClaimed(series, out) ==
    IF \A t \in 1..Len(series) : series[t] = None
    THEN out = None
    ELSE \E t \in 1..Len(series) :
            /\ series[t] # None /\ out = series[t]
            /\ \A u \in (t + 1)..Len(series) : series[u] = None

\* C23 (as amended): sma and ema are undefined at exactly the first window-1
\* positions; rsi is undefined at exactly the first window positions and where the
\* average loss is 0, and lies in [0, 100] wherever defined; latest_value returns the
\* most recent defined value, or None when the whole series is undefined.
C23_IndicatorWarmUp ==
    pc = "ret" /\ args.fn \in {"sma", "ema", "rsi", "latest_value"}
    => CASE args.fn = "rsi" -> /\ Len(Val(ret)) = Len(args.series)
                               /\ RsiAsClaimed(args.series, Val(ret), args.window, args.window)
         [] args.fn = "latest_value" -> LatestAsClaimed(args.series, Val(ret))
         [] OTHER -> /\ Len(Val(ret)) = Len(args.series)
                     /\ UndefinedExactlyFirst(Val(ret), args.window - 1)

\* C23 (as claimed): sma, ema and rsi alike are undefined at exactly the first
\* window-1 positions and defined at every later position, except that rsi is
\* undefined where the average loss is 0; rsi lies in [0, 100]; latest_value returns
\* the most recent defined value or None.
C23_WarmUpIsWindowMinusOne ==
    pc = "ret" /\ args.fn \in {"sma", "ema", "rsi", "latest_value"}
    => CASE args.fn = "rsi" -> RsiAsClaimed(args.series, Val(ret), args.window, args.window - 1)
         [] args.fn = "latest_value" -> LatestAsClaimed(args.series, Val(ret))
         [] OTHER -> UndefinedExactlyFirst(Val(ret), args.window - 1)

\* rsi over a series whose close falls within the first window positions: position
\* window is still undefined and the next one is defined
C23_Witness ==
    /\ pc = "ret" /\ args.fn = "rsi"
    /\ args.window >= 2
    /\ Len(args.series) > args.window
    /\ ~NoFallUpTo(args.series, args.window)
    /\ Val(ret)[args.window] = None
    /\ Val(ret)[args.window + 1] # None

---------------------------------------------------------------------------
(* Further claims about the pattern detectors (checked under SpecDetect)   *)

\* calendar days between a row and the final row of the series
AgeOfRow(rows, t) == Row(rows, Len(rows) - 1).date - Row(rows, t).date

\* C24: every gap reported by detect_last_gap has a date at most lookback_days
\* calendar days before the date of the series' final row and has is_expired = False;
\* when the latest gap found in the scanned rows is older than that, the result is
\* last_gap = None with is_expired = True and no fill status, and no earlier gap is
\* reported in its place.
C24_ExpiredGapIsDropped ==
    (Returned("detect_last_gap") /\ args.hist.required_columns)
    => LET rows == args.hist.rows
           q == QualifyingRows(rows, args.lookback_days)
           st == Val(ret)
       IN /\ st.last_gap # None
             => /\ AgeOfRow(rows, RowOfDate(rows, Val(st.last_gap).date))
                       <= args.lookback_days
                /\ st.is_expired = Some(FALSE)
          /\ (q # {} /\ AgeOfRow(rows, SetMax(q)) > args.lookback_days)
             => /\ st.last_gap = None
                /\ st.is_expired = Some(TRUE)
                /\ st.is_filled_by_close = None
                /\ st.fill_date_by_close = None
                /\ st.fill_close_by_close = None

\* two gaps lie in the scanned rows, the later one is older than lookback_days, and
\* no gap is reported
C24_Witness ==
    /\ Returned("detect_last_gap")
    /\ LET q == QualifyingRows(args.hist.rows, args.lookback_days)
       IN /\ Cardinality(q) >= 2
          /\ AgeOfRow(args.hist.rows, SetMax(q)) > args.lookback_days
    /\ Val(ret).last_gap = None
    /\ Val(ret).is_expired = Some(TRUE)

\* the result gap_reclaim_within_3_days returns when the price data is missing
Undetermined == ReclaimSignal(None, None, None, None)

\* the history has rows and the columns the detectors need
PriceDataPresent == Len(args.hist.rows) > 0 /\ args.hist.required_columns

\* the gap status holds a GAP_UP that a close has filled
ClosedGapUp(gap) ==
    /\ gap.last_gap # None
    /\ Val(gap.last_gap).kind = "GAP_UP"
    /\ gap.is_filled_by_close = Some(TRUE)

\* C25: when gap_reclaim_within_3_days is invoked without a closed GAP_UP (no gap was
\* found, the gap is not yet filled, or the filled gap is a GAP_DOWN) it returns a
\* definite 'not applicable' result, distinct from the 'undetermined' result it
\* returns when the price data is missing.
C25_NotApplicableIsDefinite ==
    /\ (Returned("gap_reclaim_within_3_days") /\ ~PriceDataPresent)
       => Val(ret).reclaim = Undetermined
    /\ (Returned("gap_reclaim_within_3_days") /\ PriceDataPresent
          /\ ~ClosedGapUp(Val(ret).gap))
       => /\ Val(ret).reclaim # Undetermined
          /\ Val(ret).reclaim.is_reclaim = Some(FALSE)

\* price data is present and holds no gap, and the answer is the one given for
\* missing data
C25_Witness ==
    /\ Returned("gap_reclaim_within_3_days")
    /\ PriceDataPresent
    /\ Len(args.hist.rows) >= 2
    /\ Val(ret).gap.last_gap = None
    /\ Val(ret).reclaim = Undetermined

\* the two cases the code does answer definitely: an open gap, a filled GAP_DOWN
C25_DefiniteCases ==
    /\ Returned("gap_reclaim_within_3_days")
    /\ PriceDataPresent
    /\ Val(ret).gap.last_gap # None
    /\ ~ClosedGapUp(Val(ret).gap)
    /\ Val(ret).reclaim.is_reclaim = Some(FALSE)

---------------------------------------------------------------------------
(* Claims about the win rate and the rating of the report (checked under   *)
(* Spec)                                                                   *)

\* the labels _rule_35_zone can return
ClassifierZones ==
    { _rule_35_zone(p, h) : p \in {None, Some(50), Some(66), Some(75), Some(100)},
                            h \in {None, Some(100)} }

\* the breakdown of the win rate build_report would compute from the fetched history
\* if the classifier's label were zone
WinRateWithZone(zone) ==
    LET c == config(world)
        s == Val(snap)
        d == _compute_from_history(s.history, c.volume_avg_window, c.trailing_stop_pct,
                                   c.vol_spike_window)
        vol == volume_signal(d.v_today, d.v_avg, d.open_, d.close)
        sy == san_yang_kai_tai(d.ma5, d.ma10, d.ma20, d.ma20_slope)
    IN choose_win_rate_breakdown(choose_win_rate_args(win_rate_call(d, vol, sy, zone)))

\* C26: the value-reversion bonus is reachable in a report: some zone produced by
\* _rule_35_zone gives, together with RSI14 < 30 and a computable base, a win rate
\* that includes the +0.20 value-reversion bonus; and when the zone is undetermined
\* the rule is recorded as skipped for a missing input rather than as not applied.
C26_ValueReversionReachable ==
    /\ (ReportDone /\ Val(report).kelly_w # None
          /\ Val(report).rsi14 # None /\ Val(Val(report).rsi14) < 30)
       => \E z \in ClassifierZones \ {_rule_35_zone(None, None)} :
             RuleStatus(WinRateWithZone(z), "ValueReversion") = "APPLIED"
    /\ (ReportDone /\ Val(report).kelly_w # None)
       => RuleStatus(WinRateWithZone(_rule_35_zone(None, None)), "ValueReversion")
              = "SKIPPED_MISSING"

\* a report with a computable base, RSI14 below 30 and the price under 65% of the
\* 52-week high, whose value-reversion rule is not applied
C26_Witness ==
    /\ ReportDone
    /\ Val(report).kelly_w # None
    /\ Val(report).rsi14 # None /\ Val(Val(report).rsi14) < 30
    /\ Val(report).rule_35_zone = "DEEP"
    /\ Val(bd) = WinRateWithZone("DEEP")
    /\ RuleStatus(Val(bd), "ValueReversion") = "NOT_APPLIED"

\* the outcome _stop_target gives for the figures of the report
StopOutcome ==
    _stop_target(Val(report).p_now, Val(report).ma20, Val(report).p_high,
                 world.stop_loss_pct, world.min_rr).target_mode

\* C27: for every entry > 0, every stop_loss_pct in (0, 0.5) accepted by build_report
\* and every MA20, defined or not, the stop returned by _stop_target is strictly below
\* entry; hence entry - stop > 0 always and the INVALID_STOP_GE_ENTRY outcome is never
\* produced in a report.
C27_StopBelowEntry ==
    (ReportDone /\ Val(report).p_now # None)
    => /\ Val(report).stop # None
       /\ RLT(Val(Val(report).stop), Rat(Val(Val(report).p_now), 1))
       /\ StopOutcome # "INVALID_STOP_GE_ENTRY"

\* a report for an accepted stop_loss_pct whose stop equals the entry price: the
\* target is reported and R is not
C27_Witness ==
    /\ ReportDone
    /\ config_valid(config(world))
    /\ Val(report).p_now # None
    /\ Val(report).stop = Some(Rat(Val(Val(report).p_now), 1))
    /\ Val(report).target # None
    /\ Val(report).r_ratio = None
    /\ StopOutcome = "INVALID_STOP_GE_ENTRY"

\* the report gives a rating other than insufficient data
Rated == ReportDone /\ Val(report).final_rating # "INSUFFICIENT_DATA"

\* C28: whenever the final rating is anything other than insufficient data, the
\* reported plan is well formed: stop < entry < target, R is defined with R > 0 and
\* R >= min_rr, W is in [0.15, 0.85] and the capped Kelly fraction is defined and in
\* [0, max_position_pct]; whenever the rating is strong buy or watch on pullback, the
\* capped Kelly fraction is also > 0 and both the benchmark and the ticker regime are
\* BULL.  In every report a defined R is at least min_rr.
C28_RatedPlanWellFormed ==
    /\ Rated
       => LET r == Val(report)
          IN /\ r.p_now # None /\ r.stop # None /\ r.target # None
             /\ RLT(Val(r.stop), Rat(Val(r.p_now), 1))
             /\ RLT(Rat(Val(r.p_now), 1), Val(r.target))
             /\ r.r_ratio # None
             /\ RLT(Rat(0, 1), Val(r.r_ratio))
             /\ RLE(world.min_rr, Val(r.r_ratio))
             /\ r.kelly_w # None
             /\ 1500 <= Val(r.kelly_w) /\ Val(r.kelly_w) <= 8500
             /\ r.kelly_f_capped # None
             /\ RLE(Rat(0, 1), Val(r.kelly_f_capped))
             /\ RLE(Val(r.kelly_f_capped), world.max_position_pct)
             /\ r.final_rating \in {"STRONG_BUY", "WATCH_ON_PULLBACK"}
                => /\ RLT(Rat(0, 1), Val(r.kelly_f_capped))
                   /\ r.bench_regime = "BULL"
                   /\ r.trend_regime = "BULL"
    /\ (ReportDone /\ Val(report).r_ratio # None)
       => RLE(world.min_rr, Val(Val(report).r_ratio))

\* a strong-buy report whose target was raised to meet a positive min_rr
C28_Witness ==
    /\ Rated
    /\ Val(report).final_rating = "STRONG_BUY"
    /\ RLT(Rat(0, 1), world.min_rr)
    /\ Val(report).r_ratio = Some(world.min_rr)
    /\ RLT(Rat(0, 1), Val(Val(report).kelly_f_capped))

\* a rated report whose capped Kelly fraction is 0
C28_WitnessStandAside ==
    /\ Rated
    /\ Val(report).kelly_f_capped = Some(Rat(0, 1))
    /\ Val(report).final_rating = "STAND_ASIDE"

\* the three rules of the win rate that read the latest gap
GapRules == {"GapCloseDown", "GapCloseUp", "OpenGap"}

\* the gap rules a breakdown lists as applied
AppliedGapRules(b) == { name \in GapRules : RuleStatus(b, name) = "APPLIED" }

\* C29: in every win rate computed through build_report at most one of the three gap
\* rules is APPLIED: the gap-closed-by-close DOWN bonus, the gap-closed-by-close UP
\* penalty and the open-gap-not-yet-filled penalty are mutually exclusive.
C29_OneGapRuleAtMost ==
    (ReportDone /\ Val(report).kelly_w # None)
    => /\ GapRules \subseteq { Val(bd).components[i].name : i \in 1..Len(Val(bd).components) }
       /\ Cardinality(AppliedGapRules(Val(bd))) <= 1

\* a report on a GAP_UP closed by a close: the UP penalty alone is applied
C29_Witness ==
    /\ ReportDone
    /\ Val(report).kelly_w # None
    /\ Val(report).gap_kind = Some("GAP_UP")
    /\ Val(report).gap_filled_by_close = Some(TRUE)
    /\ AppliedGapRules(Val(bd)) = {"GapCloseUp"}

\* reports in which the DOWN bonus alone, and the open-gap penalty alone, are applied
C29_WitnessDown == ReportDone /\ AppliedGapRules(Val(bd)) = {"GapCloseDown"}

C29_WitnessOpen == ReportDone /\ AppliedGapRules(Val(bd)) = {"OpenGap"}

\* the history of the ticker has no strict gap in the scanned rows, or its latest gap
\* has expired
NoLiveGap == world.n < 2 \/ world.gap \in {"NONE", "EXPIRED"}

\* C30: if the history of the ticker holds no strict gap in the scanned rows, or its
\* latest gap has expired, the gap open, filled and filled-by-close flags of the report
\* are all undefined and the final rating is insufficient data, however complete and
\* favourable every other field is; a rating other than insufficient data is only
\* issued for a history with an unexpired gap.
C30_NoLiveGapNoRating ==
    /\ (ReportDone /\ NoLiveGap)
       => /\ Val(report).gap_open = None
          /\ Val(report).gap_filled = None
          /\ Val(report).gap_filled_by_close = None
          /\ Val(report).final_rating = "INSUFFICIENT_DATA"
    /\ Rated => ~NoLiveGap

\* the latest gap has expired on a ticker that meets every strong-buy condition in a
\* bullish market; every field but the three gap flags is defined
C30_Witness ==
    /\ ReportDone
    /\ world.gap = "EXPIRED"
    /\ LET r == Val(report)
           others == SelectSeq(Checklist(r),
                               LAMBDA x : x \notin {r.gap_open, r.gap_filled,
                                                     r.gap_filled_by_close})
       IN /\ Len(others) = Len(Checklist(r)) - 3
          /\ \A i \in 1..Len(others) : others[i] # None
          /\ RLT(Rat(0, 1), Val(r.kelly_f_capped))
          /\ StrongBuyConditions(r)
          /\ r.bench_regime = "BULL"
          /\ r.gap_open = None
          /\ r.final_rating = "INSUFFICIENT_DATA"

\* the same with no gap at all in the scanned rows
C30_WitnessNoGap ==
    /\ ReportDone
    /\ world.gap = "NONE" /\ world.n >= 200
    /\ Val(report).kelly_f_capped # None
    /\ Val(report).final_rating = "INSUFFICIENT_DATA"

====
